---- MODULE Spec2Model ----
(***************************************************************************)
(* Verification model of the lighter-bot core: AccountListener (fill and   *)
(* position reconciliation, FIFO realized PnL), StateStore, MetricsLedger, *)
(* SelfTradeGuard and the MakerEngine tick.                                *)
(*                                                                         *)
(* Units.  Base sizes and inventory of the account model are integers.     *)
(* Prices of the account model are integers that are multiples of 100, so  *)
(* that a fee of notional * rate (rate given in percent) is an integer.    *)
(***************************************************************************)
EXTENDS Integers, Sequences, FiniteSets, TLC

VARIABLES
    \* ---- AccountListener / StateStore
    acfg,            \* AccountListener configuration (account_index, market_filter, ...)
    inventory,       \* StateStore._inventory: market -> signed position (partial map)
    fifo_lots,       \* AccountListener._fifo_lots: market -> deque of lots
    fifo_realized,   \* AccountListener._fifo_realized_quote: market -> cumulative realized
    lot_seq,         \* observer: number of lots opened so far (acquisition stamp)
    fills_seen,      \* observer: number of trade entries received so far
    log,             \* observer: calls made while handling the last frame, in order
    matches,         \* observer: FIFO matches made while handling the last frame
    snap,            \* observer: value written by the last position-snapshot write, per market
    since,           \* observer: sum of base_delta applied by the fill branch since then
    maker_net,       \* observer: sum of base_delta over maker fills, per market
    maker_cash,      \* observer: sum of (quote_delta - fee) over maker fills, per market
    all_net,         \* observer: sum of base_delta over all own fills, per market
    all_cash,        \* observer: sum of (quote_delta - fee) over all own fills, per market
    fill_events      \* observer: fill events handed to the ledger by the last frame

acctVars == <<acfg, inventory, fifo_lots, fifo_realized, lot_seq, fills_seen, log,
              matches, snap, since, maker_net, maker_cash, all_net, all_cash, fill_events>>

VARIABLES lcfg, ledger_file, archives, clock, appended, reset_at, read_done, read_since,
          read_events,
          append_errors    \* observer: calls of append that raised to their caller

ledgerVars == <<lcfg, ledger_file, archives, clock, appended, reset_at, read_done, read_since,
                read_events, append_errors>>

VARIABLES
    \* ---- MakerEngine, SelfTradeGuard and the StateStore fields they use
    mcfg,            \* maker / guard / chaos configuration
    mid,             \* StateStore._mids[market]: [known, px]
    now,             \* time.time(), in seconds
    ticks,           \* iterations of MakerEngine.run so far
    open_orders,     \* MakerEngine._open_orders, in insertion order
    next_order_index,\* TradingClient._next_client_order_index
    cancel_count,    \* MakerEngine._cancel_count_this_minute
    cancel_window_start, \* MakerEngine._cancel_window_start
    is_throttled,    \* MakerEngine._is_throttled
    vol,             \* volatility fields: [seeded, paused, low_paused, latest]
    trend,           \* trend fields: [samples, state, signal, cooldown_until]
    regime,          \* regime fields: [name, last_switch]
    pnl_guard,       \* PnL guard fields: [extra, mult, expiry, active]
    guard_block,     \* StateStore guard-block marker: [set, since]
    \* ---- observers
    rejects,         \* orders the exchange has rejected so far
    tick,            \* what the last iteration of run computed and did
    placed,          \* orders submitted by the last iteration, in order
    recent_cancels   \* times of the cancel operations of the last 60 seconds

makerVars == <<mcfg, mid, now, ticks, open_orders, next_order_index, cancel_count,
               cancel_window_start, is_throttled, vol, trend, regime, pnl_guard,
               guard_block, rejects, tick, placed, recent_cancels>>

VARIABLES
    \* ---- Hedger
    hcfg,                \* hedger / maker / fees configuration seen by Hedger.__init__
    next_allowed_ts,     \* Hedger._next_allowed_ts
    over_trigger_since,  \* Hedger._over_trigger_since: [set, ts]
    open_passive_orders, \* Hedger._open_passive_orders
    \* ---- observers
    wakeups,             \* evaluations of _maybe_hedge so far
    wake,                \* what the last evaluation of _maybe_hedge decided and did
    calls,               \* exchange-client calls made by the last evaluation, in order
    deny_since           \* first denial of the guard's current run of denials: [set, ts]

hedgerVars == <<hcfg, next_allowed_ts, over_trigger_since, open_passive_orders, wakeups,
                wake, calls, deny_since>>

VARIABLES
    \* ---- the per-path locks of src/metrics/ledger.py, used by two threads
    lock_table,      \* _LOCKS.get(path): the lock stored for the path, 0 for none
    thread_state,    \* per thread: [pc, lock, appends]
    lock_owner,      \* per lock: the thread holding it, 0 for none
    \* ---- TradingClient._next_order_index, used by the maker and the hedger
    pending,         \* callers inside create_post_only_limit that hold no order index yet
    issued_ids       \* observer: the order indexes handed out, in order: [who, id, concurrent]

concVars == <<lock_table, thread_state, lock_owner, pending, issued_ids>>

VARIABLES
    \* ---- MarketDataListener
    wcfg,                 \* ws configuration: [usable, fallback_on_fail, max_failures]
    listener_pc,          \* position of MarketDataListener.run
    consecutive_failures, \* MarketDataListener._consecutive_failures
    stop_set,             \* MarketDataListener._stop.is_set()
    ws_subscribed,        \* MarketDataListener._ws_subscribed_channels
    \* ---- observers
    connects,             \* calls of websockets.connect so far
    conn_id,              \* the connection in use: the number of its connect call, 0 if none
    subscribe_rounds,     \* calls of _send_ws_subscriptions so far
    fail_streak,          \* socket errors since the last connection that was established
    frames_seen,          \* frames received so far
    synth_ticks,          \* frames the synthetic feeder has emitted so far
    last_recv             \* what the last wait on ws.recv() returned and led to

listenerVars == <<wcfg, listener_pc, consecutive_failures, stop_set, ws_subscribed, connects,
                  conn_id, subscribe_rounds, fail_streak, frames_seen, synth_ticks, last_recv>>

VARIABLES
    \* ---- main(): the component tasks and the shared TradingClient
    task_state,           \* state of every asyncio task: absent, running, cancelling, done
    main_pc,              \* position of main()
    stop_event,           \* stop_event.is_set()
    signer_open,          \* TradingClient._signer is not None
    \* ---- observers
    client_calls,         \* order placements and cancels made on the shared client so far
    late_calls,           \* those made after TradingClient.close() had returned
    unfinished_at_close   \* the tasks not finished when close() was called

mainVars == <<task_state, main_pc, stop_event, signer_open, client_calls, late_calls,
              unfinished_at_close>>

VARIABLES
    tick_errors           \* observer: exceptions of the exchange client in the last maker
                          \* iteration and what the iteration did about them

errVars == <<tick_errors>>

VARIABLES
    last_snapshot         \* observer: the positions member of the last account frame and
                          \* the inventory its trades had left when it was handled

snapVars == <<last_snapshot>>

VARIABLES
    guard_eval            \* observer: the last call of SelfTradeGuard.is_allowed, its
                          \* arguments, what it read and what it returned

guardVars == <<guard_eval>>

VARIABLES
    \* ---- a lazy reader of MetricsLedger.iter_events and the lock of its path
    rlock,                \* the threading.RLock of the path: [owner, count], owner 0 for none
    iter_pc,              \* position of the generator: idle, reading, done
    iter_fh,              \* the lines of the file the generator holds open
    iter_pos,             \* lines the generator has read so far
    iter_log              \* observer: rotations and resets made while it was reading

iterVars == <<rlock, iter_pc, iter_fh, iter_pos, iter_log>>

VARIABLES
    exchange_live         \* observer: the maker's orders resting on the exchange

exchVars == <<exchange_live>>

VARIABLES
    \* ---- the Hedger's loop next to the fills of the AccountListener
    loop_pc,              \* position of Hedger._run_loop: evaluating, waiting
    wake_event,           \* Hedger._wake, the asyncio.Event
    on_fill_tasks,        \* tasks made by fire_and_forget(hedger.on_fill) that have not run
    state_inventory,      \* the inventory of the StateStore, in fills applied
    read_inventory,       \* the inventory the last evaluation read
    waited                \* ticks the current wait has lasted

wakeVars == <<loop_pc, wake_event, on_fill_tasks, state_inventory, read_inventory, waited>>

VARIABLES
    passive_attempt       \* observer: how the Hedger's last passive attempt ended, its
                          \* order's index and what of it rests on the exchange

passiveVars == <<passive_attempt>>

extVars == <<iterVars, exchVars, wakeVars, passiveVars>>

sysVars == <<listenerVars, mainVars, errVars, snapVars, guardVars, extVars>>

vars == <<acctVars, ledgerVars, makerVars, hedgerVars, concVars, sysVars>>

-----------------------------------------------------------------------------
(* Bounds and input alphabets                                              *)

\* Trade entries received over a run (over all frames).
MaxFills == 3

Markets == {1, 2}
Sizes == {1, 2}
Prices == {100, 200}
Us == "7"
Them == "9"
NoAccount == "None"

Min2(a, b) == IF a < b THEN a ELSE b
Max2(a, b) == IF a > b THEN a ELSE b
Abs(x) == IF x < 0 THEN -x ELSE x

\* fees.maker_actual_rate / fees.taker_actual_rate, in percent of notional
MakerFeePct == 1
TakerFeePct == 2

\* The configurations the listener is constructed with.
AcctConfigs ==
    { [account_index |-> Us, market_filter |-> {1}, default_market |-> {1},
       has_ledger |-> TRUE, has_hedger |-> TRUE],
      [account_index |-> Us, market_filter |-> {}, default_market |-> {},
       has_ledger |-> TRUE, has_hedger |-> FALSE],
      [account_index |-> NoAccount, market_filter |-> {}, default_market |-> {},
       has_ledger |-> FALSE, has_hedger |-> TRUE] }

\* Trade entries of an account_all frame.
Entry(m, s, p, ask, bid, mk) ==
    [market_id |-> m, size |-> s, price |-> p,
     ask_account_id |-> ask, bid_account_id |-> bid, is_maker_ask |-> mk]

TradeEntries ==
    { Entry(1, 1, 100, Them, Us, FALSE),    \* we buy as maker
      Entry(1, 2, 200, Them, Us, FALSE),
      Entry(1, 1, 100, Us, Them, TRUE),     \* we sell as maker
      Entry(1, 1, 200, Us, Them, TRUE),
      Entry(1, 1, 200, Us, Them, FALSE),    \* we sell as taker
      Entry(1, 1, 100, Them, Them, TRUE),   \* a trade between other accounts
      Entry(2, 1, 100, Them, Us, FALSE) }   \* a maker buy on another market

\* Frames carry no trade, one trade, or two trades the first of which is ours.
FirstOfTwo == { e \in TradeEntries : e.market_id = 1 /\ e.price = 100 /\ e.bid_account_id # e.ask_account_id }

TradeLists ==
    {<<>>} \cup { <<e>> : e \in TradeEntries }
           \cup { <<e1, e2>> : e1 \in FirstOfTwo, e2 \in TradeEntries }

\* Position entries: kind "value" carries position and sign, "null" has
\* position = None, "bad" has a position that does not parse as a decimal.
PosEntry(k, v, sg) == [kind |-> k, position |-> v, sign |-> sg]

PositionMaps ==
    { [is_dict |-> FALSE, entries |-> <<>>],
      [is_dict |-> TRUE, entries |-> <<>>],
      [is_dict |-> TRUE, entries |-> (1 :> PosEntry("value", 1, -1))],
      [is_dict |-> TRUE, entries |-> (2 :> PosEntry("null", 0, 1))],
      [is_dict |-> TRUE, entries |-> (1 :> PosEntry("bad", 0, 1))] }

-----------------------------------------------------------------------------
(* StateStore                                                              *)

get_inventory(inv, m) == IF m \in DOMAIN inv THEN inv[m] ELSE 0

update_inventory(inv, m, delta) ==
    [k \in (DOMAIN inv) \cup {m} |->
        IF k = m THEN get_inventory(inv, m) + delta ELSE inv[k]]

set_inventory(inv, m, value) ==
    [k \in (DOMAIN inv) \cup {m} |-> IF k = m THEN value ELSE inv[k]]

-----------------------------------------------------------------------------
(* AccountListener: classification of a trade entry                        *)

maker_id(e) == IF e.is_maker_ask THEN e.ask_account_id ELSE e.bid_account_id
taker_id(e) == IF e.is_maker_ask THEN e.bid_account_id ELSE e.ask_account_id

\* "maker", "taker", or "drop" (the trade is not ours)
RoleOfEntry(cfg, e) ==
    IF cfg.account_index # NoAccount
    THEN IF cfg.account_index = maker_id(e) THEN "maker"
         ELSE IF cfg.account_index = taker_id(e) THEN "taker"
         ELSE "drop"
    ELSE \* synced_account falls back to maker_id: the entry is taken as our maker fill
         "maker"

compute_base_delta(cfg, e, role) ==
    IF cfg.account_index # NoAccount /\ cfg.account_index = e.ask_account_id THEN -e.size
    ELSE IF cfg.account_index # NoAccount /\ cfg.account_index = e.bid_account_id THEN e.size
    ELSE IF role = "maker" THEN (IF e.is_maker_ask THEN -e.size ELSE e.size)
    ELSE (IF e.is_maker_ask THEN e.size ELSE -e.size)

FeeActual(role, notional) ==
    IF role = "maker" THEN (notional * MakerFeePct) \div 100
                      ELSE (notional * TakerFeePct) \div 100

-----------------------------------------------------------------------------
(* AccountListener._update_fifo_realized                                   *)

Lot(sz, p, sq) == [size |-> sz, price |-> p, seq |-> sq]

RECURSIVE OldestSeq(_)
OldestSeq(lots) ==
    IF Len(lots) = 1 THEN lots[1].seq
    ELSE Min2(lots[1].seq, OldestSeq(Tail(lots)))

\* realized += (lot_price - fill.price) * matched     (a buy closes a short lot)
ShortMatchPnl(lot_price, price, matched) == (lot_price - price) * matched

LongMatchPnl_Inverted(lot_price, price, matched) == (lot_price - price) * matched

\* realized += (fill.price - lot_price) * matched     (a sell closes a long lot)
LongMatchPnl(lot_price, price, matched) == (price - lot_price) * matched

MatchRecord(lots, lot, price, matched, pnl) ==
    [kind |-> "match", taken |-> lot.seq, oldest |-> OldestSeq(lots),
     lot_size |-> lot.size, entry |-> lot.price, exit |-> price,
     matched |-> matched, pnl |-> pnl]

OpenRecord(lot, remainder, price) ==
    [kind |-> "open", taken |-> lot.seq, oldest |-> lot.seq,
     lot_size |-> lot.size, entry |-> lot.price, exit |-> price,
     matched |-> remainder, pnl |-> 0]

\* while lots and lots[0][0] < 0 and remaining > 0   (a buy against short lots)
RECURSIVE MatchShortLots(_, _, _, _, _)
MatchShortLots(lots, remaining, price, realized, ms) ==
    IF lots # <<>> /\ Head(lots).size < 0 /\ remaining > 0
    THEN LET lot == Head(lots)
             matched == Min2(remaining, -lot.size)
             lot_size == lot.size + matched
             rest == IF lot_size = 0 THEN Tail(lots)
                     ELSE <<[lot EXCEPT !.size = lot_size]>> \o Tail(lots)
         IN MatchShortLots(rest, remaining - matched, price,
                           realized + ShortMatchPnl(lot.price, price, matched),
                           Append(ms, MatchRecord(lots, lot, price, matched,
                                                  ShortMatchPnl(lot.price, price, matched))))
    ELSE [lots |-> lots, remaining |-> remaining, realized |-> realized, ms |-> ms]

\* while lots and lots[0][0] > 0 and remaining > 0   (a sell against long lots)
RECURSIVE MatchLongLots(_, _, _, _, _)
MatchLongLots(lots, remaining, price, realized, ms) ==
    IF lots # <<>> /\ Head(lots).size > 0 /\ remaining > 0
    THEN LET lot == Head(lots)
             matched == Min2(remaining, lot.size)
             lot_size == lot.size - matched
             rest == IF lot_size = 0 THEN Tail(lots)
                     ELSE <<[lot EXCEPT !.size = lot_size]>> \o Tail(lots)
         IN MatchLongLots(rest, remaining - matched, price,
                          realized + LongMatchPnl(lot.price, price, matched),
                          Append(ms, MatchRecord(lots, lot, price, matched,
                                                 LongMatchPnl(lot.price, price, matched))))
    ELSE [lots |-> lots, remaining |-> remaining, realized |-> realized, ms |-> ms]

\* The remainder of a sell stored with the size of the fill, not negated.
OpenShortLot_Unsigned(lots, lot) == <<[lot EXCEPT !.size = Abs(lot.size)]>> \o lots

\* Where the unmatched remainder of a sell is put: lots.appendleft([-remaining, price])
OpenShortLot(lots, lot) == <<lot>> \o lots

\* Where the unmatched remainder of a buy is put: lots.append([remaining, price])
OpenLongLot(lots, lot) == Append(lots, lot)

\* Result: the new deque, the realized delta of this fill (fee subtracted), the
\* matches made, and whether a lot was opened.
update_fifo_realized(lots, base_delta, price, fee_actual, seq) ==
    IF base_delta > 0
    THEN LET r == MatchShortLots(lots, base_delta, price, 0, <<>>)
             lot == Lot(r.remaining, price, seq)
         IN [lots |-> IF r.remaining > 0 THEN OpenLongLot(r.lots, lot) ELSE r.lots,
             realized |-> r.realized - fee_actual,
             ms |-> IF r.remaining > 0
                    THEN Append(r.ms, OpenRecord(lot, r.remaining, price)) ELSE r.ms,
             opened |-> r.remaining > 0]
    ELSE IF base_delta < 0
    THEN LET r == MatchLongLots(lots, -base_delta, price, 0, <<>>)
             lot == Lot(-r.remaining, price, seq)
         IN [lots |-> IF r.remaining > 0 THEN OpenShortLot(r.lots, lot) ELSE r.lots,
             realized |-> r.realized - fee_actual,
             ms |-> IF r.remaining > 0
                    THEN Append(r.ms, OpenRecord(lot, -r.remaining, price)) ELSE r.ms,
             opened |-> r.remaining > 0]
    ELSE [lots |-> lots, realized |-> 0 - fee_actual, ms |-> <<>>, opened |-> FALSE]

-----------------------------------------------------------------------------
(* AccountListener._handle_trade_entry / _update_state                     *)

\* The listener state threaded through the entries of one frame.
AcctState ==
    [inv |-> inventory, lots |-> fifo_lots, realized |-> fifo_realized,
     seq |-> lot_seq, log |-> <<>>, ms |-> <<>>, since |-> since,
     maker_net |-> maker_net, maker_cash |-> maker_cash,
     all_net |-> all_net, all_cash |-> all_cash, events |-> <<>>]

LogLedgerThenInventory(lg, cfg, i) ==
    LET a == IF cfg.has_ledger THEN Append(lg, <<"ledger", i>>) ELSE lg
    IN Append(a, <<"inventory", i>>)

LogInventoryThenLedger(lg, cfg, i) ==
    LET a == Append(lg, <<"inventory", i>>)
    IN IF cfg.has_ledger THEN Append(a, <<"ledger", i>>) ELSE a

\* _update_state: inventory, fees, FIFO lots, ledger append -- in this order.
update_state(cfg, st, e, role, i) ==
    LET m == e.market_id
        base_delta == compute_base_delta(cfg, e, role)
        notional == e.size * e.price
        fee_actual == FeeActual(role, notional)
        quote_delta == 0 - (base_delta * e.price)
        f == update_fifo_realized(st.lots[m], base_delta, e.price, fee_actual, st.seq)
        isMaker == role = "maker"
    IN [st EXCEPT
          !.inv = update_inventory(st.inv, m, base_delta),
          !.lots = IF isMaker THEN [st.lots EXCEPT ![m] = f.lots] ELSE st.lots,
          !.realized = IF isMaker THEN [st.realized EXCEPT ![m] = @ + f.realized]
                       ELSE st.realized,
          !.seq = IF isMaker /\ f.opened THEN st.seq + 1 ELSE st.seq,
          !.ms = IF isMaker THEN st.ms \o f.ms ELSE st.ms,
          !.log = LogInventoryThenLedger(st.log, cfg, i),
          !.since = [st.since EXCEPT ![m] = @ + base_delta],
          !.maker_net = IF isMaker THEN [st.maker_net EXCEPT ![m] = @ + base_delta]
                        ELSE st.maker_net,
          !.maker_cash = IF isMaker
                         THEN [st.maker_cash EXCEPT ![m] = @ + quote_delta - fee_actual]
                         ELSE st.maker_cash,
          !.all_net = [st.all_net EXCEPT ![m] = @ + base_delta],
          !.all_cash = [st.all_cash EXCEPT ![m] = @ + quote_delta - fee_actual],
          !.events = IF cfg.has_ledger
                     THEN Append(@, [market |-> m, role |-> role,
                                     side |-> IF base_delta > 0 THEN "bid" ELSE "ask",
                                     size |-> e.size, price |-> e.price,
                                     notional |-> notional, base_delta |-> base_delta,
                                     quote_delta |-> quote_delta, fee_paid |-> fee_actual])
                     ELSE @]

handle_trade_entry(cfg, st, e, i) ==
    IF cfg.market_filter # {} /\ e.market_id \notin cfg.market_filter THEN st
    ELSE LET role == RoleOfEntry(cfg, e)
         IN IF role = "drop" THEN st
            ELSE LET u == update_state(cfg, st, e, role, i)
                 IN IF cfg.has_hedger
                    THEN [u EXCEPT !.log = Append(@, <<"hedger", i>>)]
                    ELSE u

\* for _trade_id, entry in trades.items(): ... in the order received
RECURSIVE HandleTrades(_, _, _, _)
HandleTrades(cfg, st, trades, i) ==
    IF i > Len(trades) THEN st
    ELSE HandleTrades(cfg, handle_trade_entry(cfg, st, trades[i], i), trades, i + 1)

-----------------------------------------------------------------------------
(* AccountListener: positions                                              *)

tracked_markets(cfg, inv) ==
    (IF cfg.market_filter # {} THEN cfg.market_filter ELSE DOMAIN inv)
        \cup cfg.default_market

PositionValue_Unsigned(pe) == IF pe.kind = "null" THEN 0 ELSE pe.position

\* _handle_position_entry: the value written for market m, or nothing
PositionValue(pe) ==
    IF pe.kind = "null" THEN 0
    ELSE IF pe.sign < 0 THEN 0 - pe.position ELSE pe.position

PositionWrites(cfg, pe, m) ==
    ~(cfg.market_filter # {} /\ m \notin cfg.market_filter) /\ pe.kind # "bad"

\* The markets written by the positions-is-a-dict branch and their values.
SnapshotWritten(cfg, inv, pos) ==
    { m \in DOMAIN pos.entries : PositionWrites(cfg, pos.entries[m], m) }
        \cup (tracked_markets(cfg, inv) \ DOMAIN pos.entries)

SnapshotValue(pos, m) ==
    IF m \in DOMAIN pos.entries THEN PositionValue(pos.entries[m]) ELSE 0

\* The markets reset when the frame carries no positions dict (the else branch).
ResetWithoutPositions(cfg, inv) == tracked_markets(cfg, inv)

handle_positions(cfg, inv, pos) ==
    IF pos.is_dict
    THEN LET w == SnapshotWritten(cfg, inv, pos)
         IN [m \in (DOMAIN inv) \cup w |->
                IF m \in w THEN SnapshotValue(pos, m) ELSE inv[m]]
    ELSE LET w == ResetWithoutPositions(cfg, inv)
         IN [m \in (DOMAIN inv) \cup w |-> IF m \in w THEN 0 ELSE inv[m]]

-----------------------------------------------------------------------------
(* Actions of the account listener                                         *)

ZeroMap == [m \in Markets |-> 0]

InitAcctVars ==
    /\ inventory = <<>>
    /\ fifo_lots = [m \in Markets |-> <<>>]
    /\ fifo_realized = ZeroMap
    /\ lot_seq = 0
    /\ fills_seen = 0
    /\ log = <<>>
    /\ matches = <<>>
    /\ snap = ZeroMap
    /\ since = ZeroMap
    /\ maker_net = ZeroMap
    /\ maker_cash = ZeroMap
    /\ all_net = ZeroMap
    /\ all_cash = ZeroMap
    /\ fill_events = <<>>

\* _handle_account_all: the trades of the frame, then its positions.
HandleAccountAll(trades, pos) ==
    /\ fills_seen + Len(trades) <= MaxFills
    /\ \E st \in {HandleTrades(acfg, AcctState, trades, 1)} :
       \E w \in {IF pos.is_dict THEN SnapshotWritten(acfg, st.inv, pos) ELSE {}} :
          /\ inventory' = handle_positions(acfg, st.inv, pos)
          /\ fifo_lots' = st.lots
          /\ fifo_realized' = st.realized
          /\ lot_seq' = st.seq
          /\ log' = st.log
          /\ matches' = st.ms
          /\ snap' = [m \in Markets |-> IF m \in w THEN SnapshotValue(pos, m) ELSE snap[m]]
          /\ since' = [m \in Markets |-> IF m \in w THEN 0 ELSE st.since[m]]
          /\ maker_net' = st.maker_net
          /\ maker_cash' = st.maker_cash
          /\ all_net' = st.all_net
          /\ all_cash' = st.all_cash
          /\ fill_events' = st.events
    /\ fills_seen' = fills_seen + Len(trades)
    /\ UNCHANGED acfg

-----------------------------------------------------------------------------
(* MetricsLedger (src/metrics/ledger.py)                                   *)
(* The ledger file is a sequence of lines, one JSON object per line; file  *)
(* sizes are counted in abstract byte units.  The clock is the UTC second  *)
(* used for archive names.                                                 *)

MaxAppends == 3
MaxClock == 2
MaxAppendErrors == 1

None == "None"

\* dataclass FillEvent: the monetary fields are strings and are carried here
\* as one "amounts" tag; timestamp, fee_currency, mid_price and trade_id vary.
FillEvent(ts, fee_currency, mid_price, trade_id, source) ==
    [timestamp |-> ts, market |-> "market:1", role |-> "maker", side |-> "bid",
     amounts |-> "size,price,notional,base_delta,quote_delta,fee_paid",
     fee_currency |-> fee_currency, mid_price |-> mid_price,
     trade_id |-> trade_id, source |-> source]

\* Events written by the account listener (no fee_currency) and by the
\* backfill tool of scripts/metrics_tool.py (fee_currency = "quote").
FillEvents ==
    { FillEvent(1, None, "100", "11", "account_listener"),
      FillEvent(2, None, None, None, "account_listener"),
      FillEvent(2, "quote", "100", "12", "backfill"),
      FillEvent(1, "quote", None, "13", "hedger") }

LedgerConfigs ==
    { [archive_dir |-> FALSE, has_max_bytes |-> FALSE, max_bytes |-> 0],
      [archive_dir |-> FALSE, has_max_bytes |-> TRUE, max_bytes |-> 7],
      [archive_dir |-> TRUE, has_max_bytes |-> TRUE, max_bytes |-> 7] }

\* payload = json.dumps(asdict(event)): every field of the event is written.
json_dumps(event) == event

\* len(payload): a null field is shorter than a field that carries a value.
PayloadLen(event) ==
    2 + (IF event.fee_currency = None THEN 0 ELSE 1)
      + (IF event.mid_price = None THEN 0 ELSE 1)

RECURSIVE FileSize(_)
\* path.stat().st_size: each line is its payload plus the newline.
FileSize(lines) ==
    IF lines = <<>> THEN 0
    ELSE PayloadLen(Head(lines)) + 1 + FileSize(Tail(lines))

NoFile == [exists |-> FALSE, lines |-> <<>>]

\* archive_dir / f"fills-{timestamp}.jsonl"; path.replace overwrites a file
\* that already has that name.
ArchiveTo(arch, stamp, lines) ==
    { a \in arch : a.stamp # stamp } \cup { [stamp |-> stamp, lines |-> lines] }

\* _rotate_if_needed(incoming_bytes): the file that append then writes to,
\* and the archive directory.
rotate_if_needed(cfg, file, arch, stamp, incoming_bytes) ==
    IF ~cfg.has_max_bytes \/ ~file.exists
    THEN [file |-> file, archives |-> arch]
    ELSE IF FileSize(file.lines) + incoming_bytes <= cfg.max_bytes
    THEN [file |-> file, archives |-> arch]
    ELSE IF ~cfg.archive_dir
    THEN [file |-> NoFile, archives |-> arch]
    ELSE [file |-> NoFile, archives |-> ArchiveTo(arch, stamp, file.lines)]

\* FillEvent(...) as rebuilt by iter_events from one parsed line: every field
\* is read back except fee_currency, which keeps the dataclass default.
EventFromLine(data) ==
    [timestamp |-> data.timestamp, market |-> data.market, role |-> data.role,
     side |-> data.side, amounts |-> data.amounts,
     fee_currency |-> None, mid_price |-> data.mid_price,
     trade_id |-> data.trade_id, source |-> data.source]

RECURSIVE iter_events(_, _, _)
\* iter_events(since_ts): events of the current file in on-disk order.
iter_events(lines, has_since, since_ts) ==
    IF lines = <<>> THEN <<>>
    ELSE LET data == Head(lines)
             rest == iter_events(Tail(lines), has_since, since_ts)
         IN IF has_since /\ data.timestamp < since_ts
            THEN rest
            ELSE <<EventFromLine(data)>> \o rest

InitLedgerVars ==
    /\ ledger_file = NoFile
    /\ archives = {}
    /\ clock = 0
    /\ appended = <<>>
    /\ reset_at = 0
    /\ read_done = FALSE
    /\ read_since = [has |-> FALSE, ts |-> 0]
    /\ read_events = <<>>
    /\ append_errors = 0

\* MetricsLedger.append(event)
LedgerAppend(event) ==
    /\ Len(appended) < MaxAppends
    /\ \E payload \in {json_dumps(event)} :
       \E r \in {rotate_if_needed(lcfg, ledger_file, archives, clock, PayloadLen(event))} :
          /\ ledger_file' = [exists |-> TRUE, lines |-> Append(r.file.lines, payload)]
          /\ archives' = r.archives
    /\ appended' = Append(appended, event)
    /\ read_done' = FALSE
    /\ UNCHANGED <<lcfg, clock, reset_at, read_since, read_events, append_errors>>

\* The file operations of append that raise OSError when the file system
\* refuses them: "rotate" is path.unlink / path.replace in _rotate_if_needed,
\* "write" is path.open / fh.write.
AppendStages == {"rotate", "write"}

\* MetricsLedger.append(event) when the file operation of the given stage
\* raises: neither append nor _rotate_if_needed catches it, so the call ends
\* there and the exception reaches the caller.
LedgerAppendFails(event, stage) ==
    /\ append_errors < MaxAppendErrors
    /\ \E r \in {rotate_if_needed(lcfg, ledger_file, archives, clock, PayloadLen(event))} :
          IF stage = "rotate"
          THEN /\ r.file # ledger_file
               /\ UNCHANGED <<ledger_file, archives>>
          ELSE /\ ledger_file' = r.file
               /\ archives' = r.archives
    /\ append_errors' = append_errors + 1
    /\ read_done' = FALSE
    /\ UNCHANGED <<lcfg, clock, appended, reset_at, read_since, read_events>>

\* list(MetricsLedger.iter_events(since_ts=...))
LedgerRead(has_since, since_ts) ==
    /\ read_done' = TRUE
    /\ read_since' = [has |-> has_since, ts |-> since_ts]
    /\ read_events' = IF ledger_file.exists
                      THEN iter_events(ledger_file.lines, has_since, since_ts)
                      ELSE <<>>
    /\ UNCHANGED <<lcfg, ledger_file, archives, clock, appended, reset_at, append_errors>>

\* MetricsLedger.reset()
LedgerReset ==
    /\ ledger_file.exists
    /\ ledger_file' = NoFile
    /\ archives' = IF lcfg.archive_dir
                   THEN ArchiveTo(archives, clock, ledger_file.lines)
                   ELSE archives
    /\ reset_at' = Len(appended)
    /\ read_done' = FALSE
    /\ UNCHANGED <<lcfg, clock, appended, read_since, read_events, append_errors>>

\* time.gmtime() moves on to the next second.
ClockTick ==
    /\ clock < MaxClock
    /\ clock' = clock + 1
    /\ UNCHANGED <<lcfg, ledger_file, archives, appended, reset_at, read_done,
                   read_since, read_events, append_errors>>


-----------------------------------------------------------------------------
(* MakerEngine (src/modules/maker_engine.py), SelfTradeGuard               *)
(* (src/modules/self_trade_guard.py) and TradingClient scaling             *)
(* (src/core/trading_client.py).                                           *)
(* Units: prices in 1/20000 of a quote unit (so that the half spread       *)
(* bps/20000 * mid is a whole number), sizes in 1/1000 of a base unit,     *)
(* inventory in 1/100 of a base unit, spreads in whole bps, time in        *)
(* seconds, multipliers in percent.  The floors max(1e-6, .) on a spread   *)
(* and max(1e-7, .) on a price are the smallest positive value of the unit. *)

MaxTicks == 4
MaxNoMidTicks == 1
MaxRejects == 1

PricePerQuote == 20000
SizePerBase == 1000
InventoryPerBase == 100

MakerMarket == 1

\* maker.*, guard.* and chaos.* configuration values.
BaseMakerCfg ==
    [dry_run |-> FALSE, has_client |-> TRUE,
     size |-> 80, size_min |-> 56, size_max |-> 104, exchange_min_size |-> 1,
     size_scale |-> 1000, price_scale |-> 100, exchange_min_notional |-> 0,
     inventory_soft_cap |-> 4, spread_bps |-> 10, randomize_bps |-> 4,
     refresh_seconds |-> 20, max_cancels |-> 2,
     pnl_guard_enabled |-> FALSE, pnl_max_extra_bps |-> 6, pnl_min_mult |-> 60,
     vol_enabled |-> FALSE, vol_low_bps |-> 5, vol_high_bps |-> 25,
     vol_min_spread |-> 10, vol_max_spread |-> 20,
     vol_min_mult |-> 50, vol_max_mult |-> 100,
     vol_pause_threshold |-> 35, vol_resume_threshold |-> 25,
     vol_resume_inventory_ratio |-> 25,
     vol_high_vol_threshold |-> 0, vol_high_vol_mult |-> 100,
     vol_low_pause_threshold |-> 3, vol_low_resume_threshold |-> 5,
     trend_enabled |-> FALSE, trend_lookback |-> 30, trend_threshold_bps |-> 15,
     trend_down_threshold_bps |-> 15, trend_hysteresis_bps |-> 8,
     trend_extra_spread_bps |-> 3, trend_down_extra_spread_bps |-> 3,
     trend_down_state |-> "bid_only", trend_base_down_cooldown |-> 45,
     trend_inventory_ratio |-> 70,
     regime_min_dwell |-> 60, regime_vol_threshold_bps |-> 8,
     guard_price_band_bps |-> 50, guard_crossed_book_protection |-> TRUE,
     guard_max_position_units |-> 1, guard_max_inventory |-> 1000,
     chaos_quote |-> FALSE, chaos_quote_spike_bps |-> 100, chaos_cancel |-> FALSE]

MakerConfigs ==
    { \* live trading, guard with a raised unit cap, trend filter on, minimum notional
      [BaseMakerCfg EXCEPT !.guard_max_position_units = 5, !.trend_enabled = TRUE,
                           !.exchange_min_notional = 10],
      \* live trading on a coarse price tick with the volatility logic on
      [BaseMakerCfg EXCEPT !.price_scale = 10, !.vol_enabled = TRUE, !.max_cancels = 1],
      \* live trading with the chaos injector on, crossed-book protection off
      [BaseMakerCfg EXCEPT !.chaos_quote = TRUE, !.chaos_cancel = TRUE,
                           !.guard_crossed_book_protection = FALSE],
      \* live trading with the PnL guard on and a coarse size step
      [BaseMakerCfg EXCEPT !.pnl_guard_enabled = TRUE, !.exchange_min_size = 60,
                           !.size_scale = 100, !.guard_max_position_units = 5],
      \* dry run (the default of maker.dry_run)
      [BaseMakerCfg EXCEPT !.dry_run = TRUE] }

\* Mids the market data listener writes, in price units (100.00, 100.20).
MidValues == {2000000, 2004000}

\* What one iteration draws from its environment: the value the volatility
\* EMA arrives at, the spread jitter, the chaos spike and forced cancel, and
\* whether the exchange accepts the bid and the ask.
TickInputs(cfg) ==
    [ema : IF cfg.vol_enabled THEN {2, 15, 40} ELSE {0},
     jitter : {-cfg.randomize_bps, cfg.randomize_bps},
     spike : IF cfg.chaos_quote THEN {0, cfg.chaos_quote_spike_bps} ELSE {0},
     force_cancel : IF cfg.chaos_cancel THEN BOOLEAN ELSE {FALSE},
     exchange : IF cfg.dry_run \/ rejects >= MaxRejects THEN {<<TRUE, TRUE>>}
                ELSE {<<TRUE, TRUE>>, <<FALSE, TRUE>>, <<TRUE, FALSE>>}]

CeilDiv(a, b) == (a + b - 1) \div b

Clamp(x, lo, hi) == Min2(hi, Max2(lo, x))

\* _volatility_factor(vol_bps), in percent
volatility_factor(cfg, vol_bps) ==
    IF ~cfg.vol_enabled THEN 0
    ELSE IF cfg.vol_high_bps <= cfg.vol_low_bps THEN 0
    ELSE Clamp(((vol_bps - cfg.vol_low_bps) * 100) \div (cfg.vol_high_bps - cfg.vol_low_bps),
               0, 100)

\* _spread_for_volatility(volatility_bps)
spread_for_volatility(cfg, vol_bps) ==
    IF ~cfg.vol_enabled THEN cfg.spread_bps
    ELSE Max2(1, cfg.vol_min_spread
                 + ((cfg.vol_max_spread - cfg.vol_min_spread)
                    * volatility_factor(cfg, vol_bps)) \div 100)

\* _apply_regime: the profile of the current regime
regime_spread_bonus(name) == IF name = "defensive" THEN 2 ELSE 0

regime_down_cooldown(cfg, name) ==
    IF name = "defensive" THEN cfg.trend_base_down_cooldown
    ELSE (cfg.trend_base_down_cooldown * 4) \div 10

\* ChaosInjector.modify_quote_spread(bps); spike is the drawn spike or 0
modify_quote_spread(cfg, bps, spike) ==
    IF cfg.chaos_quote THEN bps + spike ELSE bps

\* _compute_quotes(mid, volatility_bps, extra_spread_bps): [bid, ask, bps]
compute_quotes(cfg, mid_px, vol_bps, extra_spread_bps, regime_name, pg, jitter, spike) ==
    LET base0 == spread_for_volatility(cfg, vol_bps) + Max2(0, extra_spread_bps)
        base1 == base0 + regime_spread_bonus(regime_name)
        base2 == IF cfg.pnl_guard_enabled THEN base1 + Max2(0, pg.extra) ELSE base1
        bps == modify_quote_spread(cfg, Max2(1, base2 + jitter), spike)
        half == (bps * mid_px) \div 20000
    IN [bid |-> Max2(1, mid_px - half), ask |-> mid_px + half, bps |-> bps]

\* ---- SelfTradeGuard

\* _check_crossed_book(mid, bid, ask)
check_crossed_book(cfg, bid, ask) ==
    IF ~cfg.guard_crossed_book_protection THEN TRUE ELSE ~(bid >= ask)

\* _check_price_band(mid, bid, ask): denied when bid < mid * (1 - band/10000)
\* or ask > mid * (1 + band/10000); both sides are moved to the distance from
\* the mid and multiplied by 10000.
check_price_band(cfg, mid_px, bid, ask) ==
    ~((mid_px - bid) * 10000 > mid_px * cfg.guard_price_band_bps
      \/ (ask - mid_px) * 10000 > mid_px * cfg.guard_price_band_bps)

\* _check_inventory(market, ref_mid): units cap and notional cap
check_inventory(cfg, inv, ref_mid) ==
    ~(Abs(inv) > cfg.guard_max_position_units
      \/ Abs(inv) * ref_mid > cfg.guard_max_inventory * InventoryPerBase * PricePerQuote)

\* SelfTradeGuard.is_allowed(mid, bid, ask, market)
is_allowed(cfg, mid_px, bid, ask, inv, ref_mid) ==
    /\ check_crossed_book(cfg, bid, ask)
    /\ check_price_band(cfg, mid_px, bid, ask)
    /\ check_inventory(cfg, inv, ref_mid)

\* ---- StateStore as seen through hasattr

\* The methods class StateStore defines.
StateStoreMethods ==
    {"set_mid", "update_mid", "get_mid", "set_synthetic_mid", "get_synthetic_mid",
     "set_active_pairs", "get_active_pairs", "set_pair_metrics", "get_pair_metrics",
     "set_account_index", "get_account_index", "get_inventory", "update_inventory",
     "set_inventory", "add_order", "remove_order", "get_orders",
     "record_volume_sample", "record_hedger_simulation", "get_fee_stats",
     "record_maker_edge", "record_taker_slippage", "get_pnl_stats", "now"}

\* hasattr(self.state, name)
StateHas(name) == name \in StateStoreMethods

\* if self.state and hasattr(self.state, "mark_guard_blocked"): mark_guard_blocked(market, now)
mark_guard_blocked(gb, ts) ==
    IF StateHas("mark_guard_blocked")
    THEN (IF gb.set THEN gb ELSE [set |-> TRUE, since |-> ts])
    ELSE gb

\* if ... hasattr(self.state, "clear_guard_block"): clear_guard_block(market)
clear_guard_block(gb) ==
    IF StateHas("clear_guard_block") THEN [set |-> FALSE, since |-> 0] ELSE gb

\* ---- sizes

\* _min_units_for_notional(mid): [has, units]
min_units_for_notional(cfg, mid_px) ==
    IF cfg.exchange_min_notional <= 0 \/ mid_px <= 0
    THEN IF cfg.exchange_min_size > 0
         THEN [has |-> TRUE, units |-> Max2(cfg.exchange_min_size,
                                            Max2(cfg.size_min, cfg.exchange_min_size))]
         ELSE [has |-> FALSE, units |-> 0]
    ELSE LET scale == Max2(1, cfg.size_scale)
             \* ceil(exchange_min_notional / mid * scale) / scale
             quantized == CeilDiv(cfg.exchange_min_notional * scale * PricePerQuote, mid_px)
                          * (SizePerBase \div scale)
         IN [has |-> TRUE, units |-> Max2(cfg.exchange_min_size, quantized)]

\* size = min(max_size, max(min_size, size)); if size < exchange_min_size: ...
BoundSize(cfg, size) ==
    LET min_size == Max2(1, Max2(cfg.size_min, cfg.exchange_min_size))
        max_size == Max2(min_size, cfg.size_max)
        s1 == Clamp(size, min_size, max_size)
    IN IF s1 < cfg.exchange_min_size THEN cfg.exchange_min_size ELSE s1

\* _compute_quote_size(mid, volatility_bps)
compute_quote_size(cfg, mid_px, vol_bps, inv, pg) ==
    LET min_size == Max2(1, Max2(cfg.size_min, cfg.exchange_min_size))
        max_size == Max2(min_size, cfg.size_max)
        cap == Max2(1, cfg.inventory_soft_cap)
        \* ratio = min(1, |inv| / inv_soft_cap); size = max - (max - min) * ratio
        s0 == max_size - ((max_size - min_size) * Min2(Abs(inv), cap)) \div cap
        mult == cfg.vol_max_mult
                - ((cfg.vol_max_mult - cfg.vol_min_mult) * volatility_factor(cfg, vol_bps)) \div 100
        s1 == IF cfg.vol_enabled THEN (s0 * Max2(0, mult)) \div 100 ELSE s0
        s2 == IF cfg.vol_enabled /\ cfg.vol_high_vol_threshold > 0
                 /\ cfg.vol_high_vol_mult > 0 /\ vol_bps >= cfg.vol_high_vol_threshold
              THEN (s1 * cfg.vol_high_vol_mult) \div 100 ELSE s1
        s3 == BoundSize(cfg, s2)
        guard_multiplier == Max2(cfg.pnl_min_mult, Min2(100, pg.mult))
        s4 == IF cfg.pnl_guard_enabled THEN BoundSize(cfg, (s3 * guard_multiplier) \div 100)
              ELSE s3
        mu == min_units_for_notional(cfg, mid_px)
    IN IF mu.has /\ s4 < mu.units THEN BoundSize(cfg, mu.units) ELSE s4

\* Inventory tiers of run(): spread widening (bps) and size multiplier (percent)
inventory_spread_bps(inv_abs) ==
    IF inv_abs > 3 THEN 6 ELSE IF inv_abs > 2 THEN 4 ELSE IF inv_abs > 1 THEN 2 ELSE 0

inventory_size_multiplier(inv_abs) ==
    IF inv_abs > 2 THEN 50 ELSE IF inv_abs > 1 THEN 75 ELSE 100

\* run(): minimum size, then minimum notional computed from the mid
final_quote_size(cfg, mid_px, size) ==
    LET q1 == IF size < cfg.exchange_min_size THEN cfg.exchange_min_size ELSE size
        scale == Max2(1, cfg.size_scale)
        \* quote_size < exchange_min_notional / mid
        below == q1 * mid_px < cfg.exchange_min_notional * SizePerBase * PricePerQuote
        quantized == CeilDiv(cfg.exchange_min_notional * scale * PricePerQuote, mid_px)
                     * (SizePerBase \div scale)
    IN IF mid_px # 0 /\ cfg.exchange_min_notional > 0 /\ below
       THEN Max2(q1, quantized) ELSE q1

\* ---- TradingClient

\* _scale_value(raw_value, scale, label): round half up; 0 stands for the
\* ValueError raised when the result is not positive.
scale_size(cfg, size) == (size * cfg.size_scale + (SizePerBase \div 2)) \div SizePerBase

scale_price(cfg, price) == (price * cfg.price_scale + (PricePerQuote \div 2)) \div PricePerQuote

\* ---- volatility, trend, regime and PnL guard state

\* _can_resume_from_pause()
can_resume_from_pause(cfg, inv) ==
    Abs(inv) * 100 <= Max2(1, cfg.inventory_soft_cap * cfg.vol_resume_inventory_ratio)

\* _update_volatility with a resume that looks at the EMA alone.
update_volatility_ema_only(cfg, v, inv, ema) ==
    IF ~cfg.vol_enabled THEN [v EXCEPT !.latest = 0]
    ELSE IF ~v.seeded THEN [v EXCEPT !.seeded = TRUE, !.latest = 0]
    ELSE LET paused == IF ~v.paused /\ ema >= cfg.vol_pause_threshold THEN TRUE
                       ELSE IF v.paused /\ ema <= cfg.vol_resume_threshold THEN FALSE
                       ELSE v.paused
             low_paused == IF ~v.low_paused /\ ema <= cfg.vol_low_pause_threshold /\ ema > 0
                           THEN TRUE
                           ELSE IF v.low_paused /\ ema >= cfg.vol_low_resume_threshold
                           THEN FALSE
                           ELSE v.low_paused
         IN [seeded |-> TRUE, paused |-> paused, low_paused |-> low_paused, latest |-> ema]

\* _update_volatility(mid); ema is the value the EMA update arrives at
update_volatility(cfg, v, inv, ema) ==
    IF ~cfg.vol_enabled THEN [v EXCEPT !.latest = 0]
    ELSE IF ~v.seeded THEN [v EXCEPT !.seeded = TRUE, !.latest = 0]
    ELSE LET paused == IF ~v.paused /\ ema >= cfg.vol_pause_threshold THEN TRUE
                       ELSE IF v.paused /\ ema <= cfg.vol_resume_threshold
                                 /\ can_resume_from_pause(cfg, inv) THEN FALSE
                       ELSE v.paused
             low_paused == IF ~v.low_paused /\ ema <= cfg.vol_low_pause_threshold /\ ema > 0
                           THEN TRUE
                           ELSE IF v.low_paused /\ ema >= cfg.vol_low_resume_threshold
                           THEN FALSE
                           ELSE v.low_paused
         IN [seeded |-> TRUE, paused |-> paused, low_paused |-> low_paused, latest |-> ema]

\* _maybe_expire_pnl_guard()
maybe_expire_pnl_guard(cfg, pg, t) ==
    IF cfg.pnl_guard_enabled /\ pg.expiry # 0 /\ t > pg.expiry
    THEN [extra |-> 0, mult |-> 100, expiry |-> 0, active |-> FALSE]
    ELSE pg

\* _maybe_update_regime(now, cooldown_active)
maybe_update_regime(cfg, rg, t, cooldown_active, signal, vol_bps, pnl_active) ==
    LET low_vol == vol_bps < cfg.regime_vol_threshold_bps
        target == IF pnl_active \/ cooldown_active \/ signal = "down" \/ low_vol
                  THEN "defensive" ELSE "aggressive"
    IN IF target # rg.name /\ t - rg.last_switch >= cfg.regime_min_dwell
       THEN [name |-> target, last_switch |-> t]
       ELSE rg

RECURSIVE PopOld(_, _, _)
\* while samples and now - samples[0][0] > lookback: popleft()
PopOld(samples, t, lookback) ==
    IF samples # <<>> /\ t - Head(samples)[1] > lookback
    THEN PopOld(Tail(samples), t, lookback)
    ELSE samples

\* The state machine with one step per call: the threshold step looks at the
\* state the call started from.
trend_transition_one_step(cfg, tr, delta_bps, t, down_cooldown) ==
    LET s1 == IF tr.state = "ask_only" /\ delta_bps < cfg.trend_hysteresis_bps THEN "neutral"
              ELSE IF tr.state = "bid_only" /\ delta_bps > -cfg.trend_hysteresis_bps
              THEN "neutral"
              ELSE tr.state
        up == tr.state = "neutral" /\ delta_bps >= cfg.trend_threshold_bps
        down == tr.state = "neutral" /\ ~up /\ delta_bps <= -cfg.trend_down_threshold_bps
        s2 == IF up THEN "ask_only" ELSE IF down THEN cfg.trend_down_state ELSE s1
        cd == IF down /\ down_cooldown > 0
              THEN Max2(tr.cooldown_until, t + down_cooldown)
              ELSE tr.cooldown_until
    IN [state |-> s2,
        signal |-> IF s2 = "neutral" THEN "neutral"
                   ELSE IF up THEN "up" ELSE IF down THEN "down" ELSE tr.signal,
        cooldown_until |-> cd]

\* The trend state after the hysteresis and threshold steps.
trend_transition(cfg, tr, delta_bps, t, down_cooldown) ==
    LET s1 == IF tr.state = "ask_only" /\ delta_bps < cfg.trend_hysteresis_bps THEN "neutral"
              ELSE IF tr.state = "bid_only" /\ delta_bps > -cfg.trend_hysteresis_bps
              THEN "neutral"
              ELSE tr.state
        up == s1 = "neutral" /\ delta_bps >= cfg.trend_threshold_bps
        down == s1 = "neutral" /\ ~up /\ delta_bps <= -cfg.trend_down_threshold_bps
        s2 == IF up THEN "ask_only" ELSE IF down THEN cfg.trend_down_state ELSE s1
        g2 == IF up THEN "up"
              ELSE IF down THEN "down"
              ELSE IF s1 = "neutral" THEN "neutral"
              ELSE IF s1 = "ask_only" /\ tr.signal = "down"
                      /\ delta_bps > -cfg.trend_hysteresis_bps THEN "neutral"
              ELSE IF s1 = "bid_only" /\ tr.signal = "up"
                      /\ delta_bps < cfg.trend_hysteresis_bps THEN "neutral"
              ELSE tr.signal
        cd == IF down /\ down_cooldown > 0
              THEN Max2(tr.cooldown_until, t + down_cooldown)
              ELSE tr.cooldown_until
    IN [state |-> s2, signal |-> IF s2 = "neutral" THEN "neutral" ELSE g2,
        cooldown_until |-> cd]

\* _update_trend_state(mid): [trend, regime, bias, extra_spread]
update_trend_state(cfg, tr, rg, mid_px, t, inv, vol_bps, pnl_active) ==
    IF ~cfg.trend_enabled
    THEN [trend |-> tr, regime |-> rg, bias |-> "both", extra_spread |-> 0]
    ELSE
    LET samples == PopOld(Append(tr.samples, <<t, mid_px>>), t, cfg.trend_lookback)
    IN IF Len(samples) < 2
       THEN [trend |-> [tr EXCEPT !.samples = samples, !.state = "neutral"],
             regime |-> rg, bias |-> "both", extra_spread |-> 0]
       ELSE
       LET oldest_mid == Head(samples)[2]
           delta_bps == IF oldest_mid # 0
                        THEN ((mid_px - oldest_mid) * 10000) \div Max2(oldest_mid, 1)
                        ELSE 0
           down_cooldown == regime_down_cooldown(cfg, rg.name)
           nt == trend_transition(cfg, tr, delta_bps, t, down_cooldown)
           over == Abs(inv) * 100 > Max2(1, cfg.inventory_soft_cap * cfg.trend_inventory_ratio)
           cooldown_active == down_cooldown > 0 /\ t < nt.cooldown_until
           rg2 == maybe_update_regime(cfg, rg, t, cooldown_active, nt.signal, vol_bps,
                                      pnl_active)
           b1 == IF nt.state = "ask_only"
                 THEN (IF over /\ inv < 0 THEN "both" ELSE "ask")
                 ELSE IF nt.state = "bid_only"
                 THEN (IF over /\ inv > 0 THEN "both" ELSE "bid")
                 ELSE "both"
           e1 == IF b1 = "ask"
                 THEN (IF nt.signal # "down" THEN cfg.trend_extra_spread_bps
                       ELSE cfg.trend_down_extra_spread_bps)
                 ELSE IF b1 = "bid" THEN cfg.trend_extra_spread_bps
                 ELSE 0
       IN [trend |-> [samples |-> samples, state |-> nt.state, signal |-> nt.signal,
                      cooldown_until |-> nt.cooldown_until],
           regime |-> rg2,
           bias |-> IF cooldown_active /\ b1 # "both" THEN "ask" ELSE b1,
           extra_spread |-> IF cooldown_active /\ b1 # "both"
                            THEN Max2(e1, cfg.trend_down_extra_spread_bps) ELSE e1]

\* ---- cancel discipline and order tracking

CancelWindow == 60

\* _check_cancel_discipline(): [count, window_start, throttled]
check_cancel_discipline(cfg, count, window_start, throttled, t) ==
    LET rolled == t - window_start >= CancelWindow
        c == IF rolled THEN 0 ELSE count
        th == IF rolled THEN FALSE ELSE throttled
    IN [count |-> c,
        window_start |-> IF rolled THEN t ELSE window_start,
        throttled |-> IF c >= cfg.max_cancels THEN TRUE ELSE th]

\* _record_cancel()
record_cancel(count) == count + 1

\* _cancel_all_orders(): [orders, count, issued]
cancel_all_orders(orders, count) ==
    IF orders = <<>>
    THEN [orders |-> orders, count |-> count, issued |-> FALSE]
    ELSE [orders |-> <<>>, count |-> record_cancel(count), issued |-> TRUE]

\* ---- one iteration of MakerEngine.run

asymmetric_threshold == 1

place_sides_trend_only(bias, inv) ==
    [bid |-> bias \in {"both", "bid"}, ask |-> bias \in {"both", "ask"}]

\* place_bid / place_ask: the trend bias, then the asymmetric inventory filter
place_sides(bias, inv) ==
    [bid |-> bias \in {"both", "bid"} /\ ~(Abs(inv) > asymmetric_threshold /\ inv > 0),
     ask |-> bias \in {"both", "ask"} /\ ~(Abs(inv) > asymmetric_threshold /\ ~(inv > 0))]

NoQuote == [bid |-> 0, ask |-> 0, bps |-> 0]

TickRecord(path, mid_px, q, inv, size, allowed, bias, place_bid, place_ask, cancelled, marked) ==
    [path |-> path, mid |-> mid_px, bid |-> q.bid, ask |-> q.ask, inv |-> inv,
     size |-> size, allowed |-> allowed, bias |-> bias, place_bid |-> place_bid,
     place_ask |-> place_ask, cancelled |-> cancelled, marked |-> marked]

\* Times of cancel operations that lie in the 60 seconds ending at t.
RecentCancels(cancels, t, issued) ==
    LET all == IF issued THEN Append(cancels, t) ELSE cancels
    IN SelectSeq(all, LAMBDA c : c > t - CancelWindow)

\* _place_order(side, price, size) through TradingClient.create_post_only_limit:
\* the order index is drawn first, then size and price are scaled, then the
\* order goes to the signer; "raised" tells that an exception left the call.
place_order(cfg, side, price, size, index, exchange_ok) ==
    LET base_units == scale_size(cfg, size)
        price_units == scale_price(cfg, price)
        sent == base_units > 0 /\ price_units > 0
    IN [index |-> index + 1,
        sent |-> sent,
        raised |-> ~sent \/ ~exchange_ok,
        order |-> [id |-> index + 1, side |-> side, price |-> price, size |-> size,
                   price_units |-> price_units, base_units |-> base_units,
                   accepted |-> sent /\ exchange_ok]]

\* _post_quotes after its cancel: the orders sent and the orders tracked
place_quotes(cfg, bid, ask, size, place_bid, place_ask, index, bid_ok, ask_ok) ==
    IF ~(cfg.has_client /\ ~cfg.dry_run)
    THEN [index |-> index, sent |-> <<>>, tracked |-> <<>>]
    ELSE LET b == place_order(cfg, "bid", bid, size, index, bid_ok)
             i1 == IF place_bid THEN b.index ELSE index
             bs == IF place_bid /\ b.sent THEN <<b.order>> ELSE <<>>
             stop == place_bid /\ b.raised
             a == place_order(cfg, "ask", ask, size, i1, ask_ok)
             try_ask == place_ask /\ ~stop
             as == IF try_ask /\ a.sent THEN <<a.order>> ELSE <<>>
         IN [index |-> IF try_ask THEN a.index ELSE i1,
             sent |-> bs \o as,
             tracked |-> SelectSeq(bs \o as, LAMBDA o : o.accepted)]

Sleep(seconds) ==
    /\ now' = now + seconds
    /\ ticks' = ticks + 1

\* run(): no mid yet
TickNoMid ==
    /\ ticks < MaxTicks
    /\ ticks < MaxNoMidTicks
    /\ ~mid.known
    /\ tick' = TickRecord("no_mid", 0, NoQuote, 0, 0, TRUE, "both", FALSE, FALSE, FALSE, FALSE)
    /\ placed' = <<>>
    /\ recent_cancels' = RecentCancels(recent_cancels, now, FALSE)
    /\ Sleep(1)
    /\ UNCHANGED <<mcfg, mid, open_orders, next_order_index, cancel_count,
                   cancel_window_start, is_throttled, vol, trend, regime, pnl_guard,
                   guard_block, rejects, inventory>>

\* run(): one iteration with a mid
TickQuote(ema, jitter, spike, force_cancel, bid_ok, ask_ok) ==
    /\ ticks < MaxTicks
    /\ mid.known
    /\ \E inv \in {get_inventory(inventory, MakerMarket)} :
       \E pg \in {maybe_expire_pnl_guard(mcfg, pnl_guard, now)} :
       \E v \in {update_volatility(mcfg, vol, inv, ema)} :
          /\ pnl_guard' = pg
          /\ vol' = v
          /\ IF mcfg.vol_enabled /\ (v.paused \/ v.low_paused)
             THEN \* volatility pause: cancel everything and wait
                  \E c \in {cancel_all_orders(open_orders, cancel_count)} :
                     /\ open_orders' = c.orders
                     /\ cancel_count' = c.count
                     /\ recent_cancels' = RecentCancels(recent_cancels, now, c.issued)
                     /\ tick' = TickRecord("paused", mid.px, NoQuote, inv, 0, TRUE, "both",
                                           FALSE, FALSE, c.issued, FALSE)
                     /\ placed' = <<>>
                     /\ UNCHANGED <<next_order_index, cancel_window_start, is_throttled,
                                    trend, regime, guard_block>>
             ELSE
             \E ts \in {update_trend_state(mcfg, trend, regime, mid.px, now, inv, v.latest,
                                           pg.active)} :
             \E q \in {compute_quotes(mcfg, mid.px, v.latest,
                                      ts.extra_spread + inventory_spread_bps(Abs(inv)),
                                      ts.regime.name, pg, jitter, spike)} :
             \E size \in {final_quote_size(mcfg, mid.px,
                             (compute_quote_size(mcfg, mid.px, v.latest, inv, pg)
                              * inventory_size_multiplier(Abs(inv))) \div 100)} :
             \E cd \in {check_cancel_discipline(mcfg, cancel_count, cancel_window_start,
                                                is_throttled, now)} :
                /\ trend' = ts.trend
                /\ regime' = ts.regime
                /\ cancel_window_start' = cd.window_start
                /\ is_throttled' = cd.throttled
                /\ IF ~is_allowed(mcfg, mid.px, q.bid, q.ask, inv, mid.px)
                   THEN \* guard block: mark, cancel everything and wait
                        \E c \in {cancel_all_orders(open_orders, cd.count)} :
                           /\ guard_block' = mark_guard_blocked(guard_block, now)
                           /\ open_orders' = c.orders
                           /\ cancel_count' = c.count
                           /\ recent_cancels' = RecentCancels(recent_cancels, now, c.issued)
                           /\ tick' = TickRecord("guard_blocked", mid.px, q, inv, size, FALSE,
                                                 ts.bias, FALSE, FALSE, c.issued,
                                                 guard_block'.set)
                           /\ placed' = <<>>
                           /\ UNCHANGED next_order_index
                   ELSE
                   \E count1 \in {IF mcfg.chaos_cancel /\ force_cancel
                                  THEN record_cancel(cd.count) ELSE cd.count} :
                   \E place_bid \in {place_sides(ts.bias, inv).bid} :
                   \E place_ask \in {place_sides(ts.bias, inv).ask} :
                      /\ guard_block' = clear_guard_block(guard_block)
                      /\ IF size < mcfg.exchange_min_size
                         THEN /\ tick' = TickRecord("too_small", mid.px, q, inv, size, TRUE,
                                                    ts.bias, FALSE, FALSE, FALSE, FALSE)
                              /\ placed' = <<>>
                              /\ cancel_count' = count1
                              /\ recent_cancels' = RecentCancels(recent_cancels, now, FALSE)
                              /\ UNCHANGED <<open_orders, next_order_index>>
                         ELSE IF ~place_bid /\ ~place_ask
                         THEN \E c \in {cancel_all_orders(open_orders, count1)} :
                                 /\ open_orders' = c.orders
                                 /\ cancel_count' = c.count
                                 /\ recent_cancels' = RecentCancels(recent_cancels, now, c.issued)
                                 /\ tick' = TickRecord("both_disabled", mid.px, q, inv, size,
                                                       TRUE, ts.bias, FALSE, FALSE, c.issued,
                                                       FALSE)
                                 /\ placed' = <<>>
                                 /\ UNCHANGED next_order_index
                         ELSE IF cd.throttled
                         THEN \* _post_quotes returns at once
                              /\ tick' = TickRecord("throttled", mid.px, q, inv, size, TRUE,
                                                    ts.bias, place_bid, place_ask, FALSE, FALSE)
                              /\ placed' = <<>>
                              /\ cancel_count' = count1
                              /\ recent_cancels' = RecentCancels(recent_cancels, now, FALSE)
                              /\ UNCHANGED <<open_orders, next_order_index>>
                         ELSE \E c \in {cancel_all_orders(open_orders, count1)} :
                              \E p \in {place_quotes(mcfg, q.bid, q.ask, size, place_bid,
                                                     place_ask, next_order_index, bid_ok,
                                                     ask_ok)} :
                                 /\ open_orders' = p.tracked
                                 /\ next_order_index' = p.index
                                 /\ cancel_count' = c.count
                                 /\ recent_cancels' = RecentCancels(recent_cancels, now, c.issued)
                                 /\ tick' = TickRecord("posted", mid.px, q, inv, size, TRUE,
                                                       ts.bias, place_bid, place_ask, c.issued,
                                                       FALSE)
                                 /\ placed' = p.sent
    /\ rejects' = rejects + Cardinality({i \in 1..Len(placed') : ~placed'[i].accepted})
    /\ Sleep(mcfg.refresh_seconds)
    /\ UNCHANGED <<mcfg, mid, inventory>>

\* ---- the environment of the maker

\* Positions the account listener writes for the maker's market.
MakerInventories == {-2, 0, 3}

\* MarketDataListener: StateStore.update_mid(market, mid)
SetMid(px) ==
    /\ mid' = [known |-> TRUE, px |-> px]
    /\ UNCHANGED <<mcfg, now, ticks, open_orders, next_order_index, cancel_count,
                   cancel_window_start, is_throttled, vol, trend, regime, pnl_guard,
                   guard_block, rejects, tick, placed, recent_cancels, inventory>>

\* AccountListener: StateStore.set_inventory(market, value)
SetMakerInventory(value) ==
    /\ inventory' = set_inventory(inventory, MakerMarket, value)
    /\ UNCHANGED makerVars

\* apply_pnl_guard(extra_spread_bps, size_multiplier, ttl_seconds)
ApplyPnlGuard(extra_spread_bps, size_multiplier, ttl_seconds) ==
    /\ mcfg.pnl_guard_enabled
    /\ pnl_guard' = [extra |-> Min2(Max2(0, extra_spread_bps), mcfg.pnl_max_extra_bps),
                     mult |-> Max2(mcfg.pnl_min_mult, Min2(100, size_multiplier)),
                     expiry |-> IF ttl_seconds > 0 THEN now + ttl_seconds ELSE 0,
                     active |-> TRUE]
    /\ UNCHANGED <<mcfg, mid, now, ticks, open_orders, next_order_index, cancel_count,
                   cancel_window_start, is_throttled, vol, trend, regime, guard_block,
                   rejects, tick, placed, recent_cancels, inventory>>

InitMakerVars ==
    /\ mid = [known |-> FALSE, px |-> 0]
    /\ now = 0
    /\ ticks = 0
    /\ open_orders = <<>>
    /\ next_order_index = 0
    /\ cancel_count = 0
    /\ cancel_window_start = 0
    /\ is_throttled = FALSE
    /\ vol = [seeded |-> FALSE, paused |-> FALSE, low_paused |-> FALSE, latest |-> 0]
    /\ trend = [samples |-> <<>>, state |-> "neutral", signal |-> "neutral",
                cooldown_until |-> 0]
    /\ regime = [name |-> "defensive", last_switch |-> 0]
    /\ pnl_guard = [extra |-> 0, mult |-> 100, expiry |-> 0, active |-> FALSE]
    /\ guard_block = [set |-> FALSE, since |-> 0]
    /\ rejects = 0
    /\ tick = TickRecord("init", 0, NoQuote, 0, 0, TRUE, "both", FALSE, FALSE, FALSE, FALSE)
    /\ placed = <<>>
    /\ recent_cancels = <<>>

-----------------------------------------------------------------------------
(* Hedger (src/modules/hedger.py).                                         *)
(* Units: hedge sizes, trigger, target and clip in 1/1000 of a base unit,  *)
(* inventory in 1/100 of a base unit as in the StateStore model, prices in *)
(* 1/20000 of a quote unit, offsets and caps in whole bps, multipliers in  *)
(* percent, time in seconds.                                               *)

MaxWakeups == 2

\* Iterations of MakerEngine.run while the hedger is observed.
MaxGuardTicks == 1

\* hedger.*, maker.dry_run and fees.taker_actual_rate as Hedger.__init__ reads
\* them; a dry_run key is "unset" when the section does not hold it.
HedgerConfigs ==
    LET base ==
          [hedger_dry_run |-> "false", maker_dry_run |-> "false", taker_actual_rate |-> 4,
           trigger_units |-> 20, has_trigger_notional |-> FALSE, trigger_notional |-> 0,
           target_units |-> 0, max_clip_units |-> 30,
           price_offset_bps |-> 8, max_slippage_bps |-> 12,
           max_attempts |-> 2, retry_backoff_seconds |-> 2,
           poll_interval_seconds |-> 3, cooldown_seconds |-> 2,
           prefer_passive |-> TRUE, passive_wait_seconds |-> 1, passive_offset_bps |-> 4,
           passive_timeout_seconds |-> 4,
           guard_emergency_seconds |-> 6, guard_emergency_clip_multiplier |-> 120,
           guard_emergency_extra_bps |-> 4, guard_emergency_cooldown |-> 1,
           guard_clip_multiplier |-> 75, guard_price_offset_bps |-> 8,
           guard_max_slippage_bps |-> 12]
    IN { \* live hedging, passive first
         base,
         \* live hedging with a notional trigger of 5 quote units
         [base EXCEPT !.has_trigger_notional = TRUE, !.trigger_notional = 5],
         \* zero-tier taker fee, hedger.dry_run absent, maker live
         [base EXCEPT !.taker_actual_rate = 0, !.hedger_dry_run = "unset"],
         \* aggressive only, a slippage cap below the price offset, a target above zero
         [base EXCEPT !.max_slippage_bps = 5, !.guard_max_slippage_bps = 5,
                      !.target_units = 10, !.prefer_passive = FALSE],
         \* aggressive only, a slippage cap of zero
         [base EXCEPT !.max_slippage_bps = 0, !.guard_max_slippage_bps = 0,
                      !.prefer_passive = FALSE] }

\* The public methods class TradingClient defines.
TradingClientMethods ==
    {"ensure_ready", "close", "create_post_only_limit", "cancel_order"}

\* Hedger.__init__: self.dry_run
hedger_dry_run_unforced(cfg) ==
    IF cfg.hedger_dry_run # "unset" THEN cfg.hedger_dry_run = "true"
    ELSE IF cfg.maker_dry_run # "unset" THEN cfg.maker_dry_run = "true"
    ELSE TRUE

hedger_dry_run(cfg) ==
    LET explicit_dry_run == cfg.hedger_dry_run # "unset"
        configured == IF explicit_dry_run THEN cfg.hedger_dry_run = "true"
                      ELSE IF cfg.maker_dry_run # "unset" THEN cfg.maker_dry_run = "true"
                      ELSE TRUE
    IN IF cfg.taker_actual_rate = 0 /\ ~explicit_dry_run THEN TRUE ELSE configured

\* _maybe_hedge: guard_emergency_active
guard_emergency_active(cfg, gb, t) ==
    /\ cfg.guard_emergency_seconds > 0
    /\ StateHas("get_guard_block_since")
    /\ gb.set
    /\ t - gb.since >= cfg.guard_emergency_seconds

\* _maybe_hedge: the notional trigger; TRUE when the wakeup returns on it
notional_below_trigger_never(cfg, abs_inv, mid_px) == FALSE

notional_below_trigger(cfg, abs_inv, mid_px) ==
    /\ cfg.has_trigger_notional
    /\ abs_inv * mid_px <= cfg.trigger_notional * SizePerBase * PricePerQuote

\* hedge_units without the clip: the whole excess
hedge_units_unclipped(cfg, abs_inv, emergency, pnl_active) == abs_inv - cfg.target_units

\* _maybe_hedge: hedge_units = min(excess_units, clip_limit), then the PnL guard clip
hedge_units(cfg, abs_inv, emergency, pnl_active) ==
    LET excess_units == abs_inv - cfg.target_units
        clip_limit == IF emergency /\ cfg.guard_emergency_clip_multiplier > 100
                      THEN Min2((cfg.max_clip_units * cfg.guard_emergency_clip_multiplier)
                                    \div 100, abs_inv)
                      ELSE cfg.max_clip_units
        h0 == Min2(excess_units, clip_limit)
    IN IF pnl_active /\ cfg.guard_clip_multiplier > 0
       THEN Min2(h0, (cfg.max_clip_units * cfg.guard_clip_multiplier) \div 100)
       ELSE h0

\* _maybe_hedge: prefer_passive after the emergency and passive-timeout overrides
select_passive_never(cfg, emergency, over_since, t) == FALSE

select_passive(cfg, emergency, over_since, t) ==
    IF emergency THEN FALSE
    ELSE IF cfg.passive_timeout_seconds > 0 /\ over_since.set
            /\ t - over_since.ts >= cfg.passive_timeout_seconds THEN FALSE
    ELSE cfg.prefer_passive

\* _aggressive_price(mid, side, offset_bps)
aggressive_price(mid_px, side, offset_bps) ==
    LET offset == (Max2(0, offset_bps) * mid_px) \div 10000
    IN IF side = "ask" THEN Max2(0, mid_px - offset) ELSE mid_px + offset

\* _passive_price(mid, side)
passive_price(cfg, mid_px, side) ==
    LET offset == (cfg.passive_offset_bps * mid_px) \div 10000
    IN IF side = "ask" THEN Max2(0, mid_px + offset) ELSE Max2(0, mid_px - offset)

\* _execute_hedge: TRUE when the slippage check skips the aggressive order
slippage_exceeds_cap_never(mid_px, price, slippage_cap) == FALSE

slippage_exceeds_cap(mid_px, price, slippage_cap) ==
    /\ mid_px # 0
    /\ slippage_cap > 0
    /\ Abs(mid_px - price) * 10000 > slippage_cap * mid_px

\* One call the hedger makes on the exchange client.  reached is FALSE when
\* the client has no such method and the call raises AttributeError; ok is
\* whether the call returned without raising.
ClientCall(op, side, price, size, reduce_only, post_only, ok) ==
    [op |-> op, side |-> side, price |-> price, size |-> size,
     reduce_only |-> reduce_only, post_only |-> post_only,
     reached |-> op \in TradingClientMethods, ok |-> ok /\ op \in TradingClientMethods]

\* _execute_passive_hedge(side, size, mid, abs_inventory); inv is the signed
\* inventory at the call, filled what the resting order fills during the wait
\* (in inventory units), place_ok / cancel_ok whether the exchange calls return.
execute_passive_hedge(cfg, side, size, mid_px, inv, place_ok, filled, cancel_ok) ==
    LET create == ClientCall("create_post_only_limit", side, passive_price(cfg, mid_px, side),
                             size, TRUE, TRUE, place_ok)
        got == Min2(filled, size \div (SizePerBase \div InventoryPerBase))
        current == IF inv > 0 THEN inv - got ELSE inv + got
        start_abs == Abs(inv) * (SizePerBase \div InventoryPerBase)
        current_abs == Abs(current) * (SizePerBase \div InventoryPerBase)
        success == \/ current_abs <= cfg.trigger_units
                   \/ (start_abs - current_abs) * 10 >= size * 6
    IN IF ~place_ok
       THEN [success |-> FALSE, placed_passive |-> FALSE, calls |-> <<create>>,
             inventory |-> inv, elapsed |-> 0]
       ELSE IF success
       THEN [success |-> TRUE, placed_passive |-> TRUE, calls |-> <<create>>,
             inventory |-> current, elapsed |-> cfg.passive_wait_seconds]
       ELSE [success |-> FALSE, placed_passive |-> TRUE,
             calls |-> <<create, ClientCall("cancel_order", "none", 0, 0, FALSE, FALSE,
                                            cancel_ok)>>,
             inventory |-> current, elapsed |-> cfg.passive_wait_seconds]

\* The attempts loop of _execute_hedge: one create_limit_order call per attempt
\* until one returns.
RECURSIVE aggressive_attempts(_, _, _, _)
aggressive_attempts(side, price, size, left) ==
    LET call == ClientCall("create_limit_order", side, price, size, TRUE, FALSE, TRUE)
    IN IF left = 0 THEN <<>>
       ELSE IF call.ok THEN <<call>>
       ELSE <<call>> \o aggressive_attempts(side, price, size, left - 1)

\* _execute_hedge(side, size, price, mid, abs_inventory, prefer_passive, max_slippage_bps)
execute_hedge(cfg, side, size, price, mid_px, inv, prefer_passive, cap, place_ok, filled, cancel_ok) ==
    LET dry == hedger_dry_run(cfg)
        p == IF prefer_passive /\ ~dry
             THEN execute_passive_hedge(cfg, side, size, mid_px, inv, place_ok, filled,
                                        cancel_ok)
             ELSE [success |-> FALSE, placed_passive |-> FALSE, calls |-> <<>>,
                   inventory |-> inv, elapsed |-> 0]
        tries == aggressive_attempts(side, price, size, cfg.max_attempts)
        sent == tries # <<>> /\ tries[Len(tries)].ok
    IN IF p.success
       THEN [success |-> TRUE, how |-> "passive", calls |-> p.calls,
             inventory |-> p.inventory, elapsed |-> p.elapsed]
       ELSE IF slippage_exceeds_cap(mid_px, price, cap)
       THEN [success |-> FALSE, how |-> "slippage_skip", calls |-> p.calls,
             inventory |-> p.inventory, elapsed |-> p.elapsed]
       ELSE IF dry
       THEN [success |-> TRUE, how |-> "dry_run", calls |-> p.calls,
             inventory |-> p.inventory, elapsed |-> p.elapsed]
       ELSE [success |-> sent, how |-> IF sent THEN "aggressive" ELSE "exhausted",
             calls |-> p.calls \o tries, inventory |-> p.inventory,
             elapsed |-> p.elapsed
                         + (IF sent THEN Len(tries) - 1 ELSE cfg.max_attempts - 1)
                           * cfg.retry_backoff_seconds]

\* What one evaluation of _maybe_hedge decided and did; deny_age is for how
\* long the maker's guard had been denying when the evaluation started (-1
\* when it was not denying).
WakeRecord(outcome, t, inv, mid_px, over_for, cooldown_before, emergency, passive, side, units, price, cap, success) ==
    [outcome |-> outcome, t |-> t, inv |-> inv,
     abs_inv |-> Abs(inv) * (SizePerBase \div InventoryPerBase), mid_px |-> mid_px,
     over_for |-> over_for, cooldown_before |-> cooldown_before,
     emergency |-> emergency, passive |-> passive, side |-> side, units |-> units,
     price |-> price, cap |-> cap, success |-> success, deny_age |-> -1]

\* _maybe_hedge(): the record of the evaluation, the client calls it made and
\* the hedger and StateStore fields after it.
maybe_hedge(cfg, inv, m, gb, pg, allowed_ts, over_since, t, place_ok, filled, cancel_ok) ==
    LET abs_inv == Abs(inv) * (SizePerBase \div InventoryPerBase)
        over1 == IF over_since.set THEN over_since ELSE [set |-> TRUE, ts |-> t]
        emergency == guard_emergency_active(cfg, gb, t)
        pnl_active == StateHas("get_flag") /\ pg.active
        units == hedge_units(cfg, abs_inv, emergency, pnl_active)
        side == IF inv > 0 THEN "ask" ELSE "bid"
        passive == select_passive(cfg, emergency, over1, t)
        price == aggressive_price(m.px, side,
                     (IF pnl_active THEN cfg.guard_price_offset_bps
                      ELSE cfg.price_offset_bps)
                     + (IF emergency THEN cfg.guard_emergency_extra_bps ELSE 0))
        allowed1 == IF emergency THEN 0 ELSE allowed_ts
        cap == IF pnl_active THEN cfg.guard_max_slippage_bps ELSE cfg.max_slippage_bps
        x == execute_hedge(cfg, side, units, price, m.px, inv, passive, cap, place_ok,
                           filled, cancel_ok)
        cooldown == IF emergency THEN Max2(1, cfg.guard_emergency_cooldown)
                    ELSE cfg.cooldown_seconds
        quiet(outcome, over, allowed) ==
            [wake |-> WakeRecord(outcome, t, inv, IF m.known THEN m.px ELSE 0,
                                 IF over.set THEN t - over.ts ELSE 0, allowed_ts,
                                 m.known /\ emergency, FALSE, side, 0, 0, cap, FALSE),
             calls |-> <<>>, next_allowed_ts |-> allowed, over_since |-> over,
             inventory |-> inv, t_end |-> t]
    IN IF abs_inv <= cfg.trigger_units
       THEN quiet("under_trigger", [set |-> FALSE, ts |-> 0], allowed_ts)
       ELSE IF ~m.known THEN quiet("no_mid", over1, allowed_ts)
       ELSE IF notional_below_trigger(cfg, abs_inv, m.px)
       THEN quiet("notional", over1, allowed_ts)
       ELSE IF abs_inv - cfg.target_units <= 0 \/ units <= 0
       THEN quiet("no_excess", over1, allowed_ts)
       ELSE IF t < allowed1 THEN quiet("cooling", over1, allowed1)
       ELSE [wake |-> WakeRecord(x.how, t, inv, m.px, t - over1.ts, allowed_ts,
                                 emergency, passive, side, units, price, cap, x.success),
             calls |-> x.calls,
             next_allowed_ts |-> t + x.elapsed + cooldown,
             over_since |-> IF x.success THEN [set |-> FALSE, ts |-> 0] ELSE over1,
             inventory |-> x.inventory, t_end |-> t + x.elapsed]

\* One turn of _run_loop: _maybe_hedge, then _wait_for_next_tick, which ends
\* at once when a fill has set the wake event and after poll_interval_seconds
\* otherwise.
HedgerWake(place_ok, filled, cancel_ok, woken) ==
    /\ wakeups < MaxWakeups
    /\ wakeups' = wakeups + 1
    /\ \E r \in {maybe_hedge(hcfg, get_inventory(inventory, MakerMarket), mid, guard_block,
                             pnl_guard, next_allowed_ts, over_trigger_since, now, place_ok,
                             filled, cancel_ok)} :
          /\ wake' = [r.wake EXCEPT !.deny_age = IF deny_since.set THEN now - deny_since.ts
                                                 ELSE -1]
          /\ calls' = r.calls
          /\ next_allowed_ts' = r.next_allowed_ts
          /\ over_trigger_since' = r.over_since
          /\ inventory' = set_inventory(inventory, MakerMarket, r.inventory)
          /\ next_order_index' =
                 next_order_index
                     + Cardinality({i \in 1..Len(r.calls) :
                                       r.calls[i].op = "create_post_only_limit"})
          /\ now' = r.t_end + (IF woken THEN 0 ELSE hcfg.poll_interval_seconds)
    /\ open_passive_orders' = {}
    /\ UNCHANGED <<hcfg, deny_since, mcfg, mid, ticks, open_orders, cancel_count,
                   cancel_window_start, is_throttled, vol, trend, regime, pnl_guard,
                   guard_block, rejects, tick, placed, recent_cancels>>

InitHedgerVars ==
    /\ next_allowed_ts = 0
    /\ over_trigger_since = [set |-> FALSE, ts |-> 0]
    /\ open_passive_orders = {}
    /\ wakeups = 0
    /\ wake = WakeRecord("init", 0, 0, 0, 0, 0, FALSE, FALSE, "bid", 0, 0, 0, FALSE)
    /\ calls = <<>>
    /\ deny_since = [set |-> FALSE, ts |-> 0]

-----------------------------------------------------------------------------
(* The per-path lock of the ledger (src/metrics/ledger.py, _get_lock and   *)
(* MetricsLedger.append), used by two threads that append to one path.     *)

\* Appends one thread makes.
MaxThreadAppends == 2

\* _get_lock: lock = _LOCKS.get(path)
GetLockLookup(t) ==
    /\ thread_state[t].pc = "idle"
    /\ thread_state[t].appends < MaxThreadAppends
    /\ thread_state' = [thread_state EXCEPT
                           ![t].lock = lock_table,
                           ![t].pc = IF lock_table = 0 THEN "creating" ELSE "ready"]
    /\ UNCHANGED <<lock_table, lock_owner, pending, issued_ids>>

\* _get_lock, after lock was None: lock = threading.RLock(); _LOCKS[path] = lock.
\* The new lock is named after the thread that made it.
GetLockStore(t) ==
    /\ thread_state[t].pc = "creating"
    /\ lock_table' = t
    /\ thread_state' = [thread_state EXCEPT ![t].lock = t, ![t].pc = "ready"]
    /\ UNCHANGED <<lock_owner, pending, issued_ids>>

\* append: "with lock:" is entered (an RLock blocks every thread but its
\* owner) and _rotate_if_needed runs.
AppendEnter(t) ==
    /\ thread_state[t].pc = "ready"
    /\ lock_owner[thread_state[t].lock] \in {0, t}
    /\ lock_owner' = [lock_owner EXCEPT ![thread_state[t].lock] = t]
    /\ thread_state' = [thread_state EXCEPT ![t].pc = "section"]
    /\ UNCHANGED <<lock_table, pending, issued_ids>>

\* append: the line is written and the "with lock:" block is left.
AppendWrite(t) ==
    /\ thread_state[t].pc = "section"
    /\ lock_owner' = [lock_owner EXCEPT ![thread_state[t].lock] = 0]
    /\ thread_state' = [thread_state EXCEPT ![t].pc = "idle", ![t].appends = @ + 1]
    /\ UNCHANGED <<lock_table, pending, issued_ids>>

-----------------------------------------------------------------------------
(* TradingClient._next_order_index (src/core/trading_client.py), called    *)
(* by the maker and the hedger through the client they share.              *)

\* Order indexes handed out over a run.
MaxIssued == 5

\* self._next_client_order_index += 1
next_client_order_index_stale(index) == index

next_client_order_index(index) == index + 1

\* create_post_only_limit is entered and awaits _require_signer().
ClientRequest(who) ==
    /\ who \notin pending
    /\ Len(issued_ids) + Cardinality(pending) < MaxIssued
    /\ pending' = pending \cup {who}
    /\ UNCHANGED <<lock_table, thread_state, lock_owner, issued_ids, next_order_index>>

\* await self._next_order_index(): the asyncio.Lock is taken, the counter is
\* incremented and returned, the lock is released.  The block holds no await,
\* so no other coroutine runs inside it.
ClientAllocate(who) ==
    /\ who \in pending
    /\ next_order_index' = next_client_order_index(next_order_index)
    /\ issued_ids' = Append(issued_ids, [who |-> who, id |-> next_order_index',
                                         concurrent |-> pending # {who}])
    /\ pending' = pending \ {who}
    /\ UNCHANGED <<lock_table, thread_state, lock_owner>>

InitConcVars ==
    /\ lock_table = 0
    /\ thread_state = [t \in {1, 2} |-> [pc |-> "idle", lock |-> 0, appends |-> 0]]
    /\ lock_owner = [l \in {1, 2} |-> 0]
    /\ pending = {}
    /\ issued_ids = <<>>

-----------------------------------------------------------------------------
(* MarketDataListener (src/modules/market_data_listener.py).               *)
(* Mids are in 1/20000 of a quote unit as in the maker model.              *)

MaxConnects == 4
MaxFrames == 3
MaxSynthTicks == 2

\* ws.url / websockets present, ws.fallback_on_fail and ws.max_failures as
\* MarketDataListener.__init__ reads them.
ListenerConfigs ==
    { [usable |-> TRUE, fallback_on_fail |-> TRUE, max_failures |-> 2],
      [usable |-> TRUE, fallback_on_fail |-> TRUE, max_failures |-> 3],
      [usable |-> TRUE, fallback_on_fail |-> FALSE, max_failures |-> 2],
      [usable |-> FALSE, fallback_on_fail |-> TRUE, max_failures |-> 3] }

\* MarketDataListener.ws_channels with the default configuration.
ws_channels == {"market_stats/all"}

\* One entry of a market_stats frame: the market field (an int, -1 when it
\* is missing) and the mid field ("num" for a number or numeric
\* string of value px, "text" for a string float() rejects).
StatsEntry(market, mid_kind, px) == [market |-> market, mid_kind |-> mid_kind, px |-> px]

\* A text frame: whether json.loads accepts it, the kind of the top-level
\* JSON value, its "type" member and its "data" / "market_stats" members.
Frame(text, top, type, data, stats) == [text |-> text, top |-> top, type |-> type, data |-> data, stats |-> stats]

NoStats == StatsEntry(-1, "none", 0)

Frames ==
    { Frame("not_json", "none", "none", <<>>, NoStats),
      Frame("empty", "none", "none", <<>>, NoStats),
      Frame("json", "dict", "connected", <<>>, NoStats),
      Frame("json", "dict", "ping", <<>>, NoStats),
      Frame("json", "dict", "update/market_stats", <<StatsEntry(MakerMarket, "num", 2004000)>>, NoStats),
      Frame("json", "dict", "update/market_stats", <<StatsEntry(MakerMarket, "text", 0)>>, NoStats),
      Frame("json", "dict", "update/market_stats", <<>>, StatsEntry(MakerMarket, "num", 2000000)),
      Frame("json", "dict", "update/order_book", <<>>, NoStats),
      Frame("json", "dict", "none", <<>>, NoStats),
      Frame("json", "dict", "int", <<>>, NoStats),
      Frame("json", "list", "none", <<StatsEntry(MakerMarket, "num", 2004000)>>, NoStats),
      Frame("json", "scalar", "none", <<>>, NoStats) }

\* json.loads(raw_msg) if raw_msg else {}: "error" when json.loads raises,
\* else the kind of the value obtained
json_loads(f) ==
    IF f.text = "empty" THEN "dict"
    ELSE IF f.text = "not_json" THEN "error"
    ELSE f.top

\* _format_market_id: TRUE when a market id is obtained
format_market_id(market) == market # -1

\* _parse_mid_value: TRUE when a float is obtained
parse_mid_value(mid_kind) == mid_kind = "num"

\* _handle_market_stats_entry: the entries that reach state.update_mid
handled_entry(e) == format_market_id(e.market) /\ parse_mid_value(e.mid_kind)

\* the mid of market after the entries of a sequence were handled in order
RECURSIVE mid_after(_, _, _)
mid_after(entries, market, cur) ==
    IF entries = <<>> THEN cur
    ELSE mid_after(Tail(entries), market,
                   IF handled_entry(Head(entries)) /\ Head(entries).market = market
                   THEN [known |-> TRUE, px |-> Head(entries).px] ELSE cur)

\* _route_frame_obj on a dict: "raised" when msg_type.endswith fails on a
\* "type" member that is no string, "routed" when a mid was stored, else
\* "dropped"
route_frame_obj(f, cur) ==
    IF f.type = "int" THEN [result |-> "raised", mid |-> cur]
    ELSE IF f.type \notin {"update/market_stats", "subscribed/market_stats"}
    THEN [result |-> "dropped", mid |-> cur]
    ELSE LET entries == f.data \o <<f.stats>>
             handled == \E i \in 1..Len(entries) : handled_entry(entries[i])
         IN [result |-> IF handled THEN "routed" ELSE "dropped",
             mid |-> mid_after(entries, MakerMarket, cur)]

\* The body of the receive loop of _run_ws_once for one frame.  obj.get
\* raises AttributeError when the JSON value is no object.
handle_frame(f, cur) ==
    LET obj == json_loads(f)
    IN IF obj = "error" THEN [result |-> "dropped", mid |-> cur]
       ELSE IF obj # "dict" THEN [result |-> "raised", mid |-> cur]
       ELSE IF f.text = "empty" THEN [result |-> "dropped", mid |-> cur]
       ELSE IF f.type = "connected" THEN [result |-> "resubscribe", mid |-> cur]
       ELSE IF f.type = "ping" THEN [result |-> "pong", mid |-> cur]
       ELSE route_frame_obj(f, cur)

\* what the last wait on ws.recv() returned and where the listener went
RecvRecord(kind, frame, result, conn_before, conn_after, pc_after, failures_before, failures_after, rounds_before, rounds_after) == [kind |-> kind, frame |-> frame, result |-> result, conn_before |-> conn_before, conn_after |-> conn_after, pc_after |-> pc_after, failures_before |-> failures_before, failures_after |-> failures_after, rounds_before |-> rounds_before, rounds_after |-> rounds_after]

NoFrame == Frame("none", "none", "none", <<>>, NoStats)

\* run: the position after `except Exception` with the counter at failures
pc_after_error(cfg, failures) ==
    IF cfg.fallback_on_fail /\ failures >= cfg.max_failures THEN "synthetic" ELSE "sleeping"

listenerFixed == <<wcfg, stop_set>>

\* run: no usable WS starts the synthetic feeder, otherwise the loop is entered
RunStart ==
    /\ listener_pc = "start"
    /\ listener_pc' = IF wcfg.usable THEN "connecting" ELSE "synthetic"
    /\ UNCHANGED <<listenerFixed, consecutive_failures, ws_subscribed, connects, conn_id,
                   subscribe_rounds, fail_streak, frames_seen, synth_ticks, last_recv, mid>>

\* run / _run_ws_once: websockets.connect raises
ConnectFail ==
    /\ listener_pc = "connecting" /\ ~stop_set
    /\ connects < MaxConnects
    /\ connects' = connects + 1
    /\ consecutive_failures' = consecutive_failures + 1
    /\ fail_streak' = fail_streak + 1
    /\ listener_pc' = pc_after_error(wcfg, consecutive_failures + 1)
    /\ conn_id' = 0
    /\ UNCHANGED <<listenerFixed, ws_subscribed, subscribe_rounds, frames_seen, synth_ticks,
                   last_recv, mid>>

\* _run_ws_once: the connection is established, the subscribed set is
\* cleared and the subscriptions are sent (a failed send is logged)
ConnectOk(send_ok) ==
    /\ listener_pc = "connecting" /\ ~stop_set
    /\ connects < MaxConnects
    /\ connects' = connects + 1
    /\ conn_id' = connects + 1
    /\ ws_subscribed' = IF send_ok THEN ws_channels ELSE {}
    /\ subscribe_rounds' = subscribe_rounds + 1
    /\ fail_streak' = 0
    /\ listener_pc' = "receiving"
    /\ UNCHANGED <<listenerFixed, consecutive_failures, frames_seen, synth_ticks, last_recv, mid>>

\* _run_ws_once: one frame is received and handled
RecvFrame(f, send_ok) ==
    /\ listener_pc = "receiving" /\ ~stop_set
    /\ frames_seen < MaxFrames
    /\ frames_seen' = frames_seen + 1
    /\ \E h \in {handle_frame(f, mid)} :
          /\ mid' = h.mid
          /\ IF h.result = "raised"
             THEN /\ consecutive_failures' = consecutive_failures + 1
                  /\ fail_streak' = fail_streak + 1
                  /\ listener_pc' = pc_after_error(wcfg, consecutive_failures + 1)
                  /\ conn_id' = 0
                  /\ UNCHANGED <<ws_subscribed, subscribe_rounds>>
             ELSE /\ UNCHANGED <<consecutive_failures, fail_streak, listener_pc, conn_id>>
                  /\ IF h.result = "resubscribe"
                     THEN /\ subscribe_rounds' = subscribe_rounds + 1
                          /\ ws_subscribed' = IF send_ok THEN ws_channels ELSE ws_subscribed
                     ELSE UNCHANGED <<ws_subscribed, subscribe_rounds>>
          /\ last_recv' = RecvRecord("frame", f, h.result, conn_id, conn_id', listener_pc',
                                     consecutive_failures, consecutive_failures',
                                     subscribe_rounds, subscribe_rounds')
    /\ UNCHANGED <<listenerFixed, connects, synth_ticks>>

\* _run_ws_once: asyncio.wait_for(ws.recv(), timeout=60) times out
RecvTimeout ==
    /\ listener_pc = "receiving" /\ ~stop_set
    /\ frames_seen < MaxFrames
    /\ frames_seen' = frames_seen + 1
    /\ last_recv' = RecvRecord("timeout", NoFrame, "continue", conn_id, conn_id, listener_pc,
                               consecutive_failures, consecutive_failures,
                               subscribe_rounds, subscribe_rounds)
    /\ UNCHANGED <<listenerFixed, listener_pc, consecutive_failures, ws_subscribed, connects,
                   conn_id, subscribe_rounds, fail_streak, synth_ticks, mid>>

\* _run_ws_once: ws.recv() raises because the connection was closed
RecvClosed ==
    /\ listener_pc = "receiving" /\ ~stop_set
    /\ consecutive_failures' = consecutive_failures + 1
    /\ fail_streak' = fail_streak + 1
    /\ listener_pc' = pc_after_error(wcfg, consecutive_failures + 1)
    /\ conn_id' = 0
    /\ last_recv' = RecvRecord("closed", NoFrame, "raised", conn_id, 0, listener_pc',
                               consecutive_failures, consecutive_failures + 1,
                               subscribe_rounds, subscribe_rounds)
    /\ UNCHANGED <<listenerFixed, ws_subscribed, connects, subscribe_rounds, frames_seen,
                   synth_ticks, mid>>

\* run: asyncio.sleep(2.0) after a socket error, then the loop condition
SleepDone ==
    /\ listener_pc = "sleeping"
    /\ listener_pc' = IF stop_set THEN "stopped" ELSE "connecting"
    /\ UNCHANGED <<listenerFixed, consecutive_failures, ws_subscribed, connects, conn_id,
                   subscribe_rounds, fail_streak, frames_seen, synth_ticks, last_recv, mid>>

\* _run_synthetic: one frame of the synthetic feeder
SyntheticTick(px) ==
    /\ listener_pc = "synthetic" /\ ~stop_set
    /\ synth_ticks < MaxSynthTicks
    /\ synth_ticks' = synth_ticks + 1
    /\ mid' = [known |-> TRUE, px |-> px]
    /\ UNCHANGED <<listenerFixed, listener_pc, consecutive_failures, ws_subscribed, connects,
                   conn_id, subscribe_rounds, fail_streak, frames_seen, last_recv>>

\* stop(): self._stop.set()
ListenerStop ==
    /\ ~stop_set /\ listener_pc # "stopped"
    /\ stop_set' = TRUE
    /\ UNCHANGED <<wcfg, listener_pc, consecutive_failures, ws_subscribed, connects, conn_id,
                   subscribe_rounds, fail_streak, frames_seen, synth_ticks, last_recv, mid>>

\* run: the loops end once _stop is set; a _run_ws_once that returns resets
\* the failure counter
ListenerExit ==
    /\ stop_set /\ listener_pc \in {"connecting", "receiving", "synthetic"}
    /\ consecutive_failures' = IF listener_pc = "receiving" THEN 0 ELSE consecutive_failures
    /\ listener_pc' = "stopped"
    /\ conn_id' = 0
    /\ UNCHANGED <<listenerFixed, ws_subscribed, connects, subscribe_rounds, fail_streak,
                   frames_seen, synth_ticks, last_recv, mid>>

InitListenerVars ==
    /\ listener_pc = "start"
    /\ consecutive_failures = 0
    /\ stop_set = FALSE
    /\ ws_subscribed = {}
    /\ connects = 0
    /\ conn_id = 0
    /\ subscribe_rounds = 0
    /\ fail_streak = 0
    /\ frames_seen = 0
    /\ synth_ticks = 0
    /\ last_recv = RecvRecord("none", NoFrame, "none", 0, 0, "start", 0, 0, 0, 0)

-----------------------------------------------------------------------------
(* MakerEngine: exceptions of the exchange client inside one iteration     *)
(* (src/modules/maker_engine.py, _post_quotes and _cancel_all_orders).     *)

\* the maker sends orders and cancels to the client
live_client(cfg) == cfg.has_client /\ ~cfg.dry_run

\* _cancel_all_orders: `except Exception` logs the failure; _post_quotes:
\* `except Exception` logs it and alerts "Order placement failed"
alerts_of_tick(cancel_raised, place_raised) ==
    IF place_raised THEN <<"Order placement failed">> ELSE <<>>

\* run(): TRUE when an exception of the client leaves the iteration and
\* reaches `except Exception` of run() ("Maker crashed", raise); the calls of
\* the client are all made inside the two try blocks
exception_escapes(cancel_raised, place_raised) == FALSE

\* run(): one iteration with a mid on an exchange client whose cancel_order
\* succeeds or raises
TickQuoteOnClient(in, cancel_ok) ==
    /\ TickQuote(in.ema, in.jitter, in.spike, in.force_cancel, in.exchange[1], in.exchange[2])
    /\ \E cancel_raised \in {live_client(mcfg) /\ tick'.cancelled /\ ~cancel_ok} :
       \E requested \in {(IF tick'.place_bid THEN 1 ELSE 0) + (IF tick'.place_ask THEN 1 ELSE 0)} :
       \E place_raised \in {/\ live_client(mcfg)
                            /\ tick'.path = "posted"
                            /\ Len(SelectSeq(placed', LAMBDA o : o.accepted)) < requested} :
          tick_errors' = [cancel_raised |-> cancel_raised,
                          place_raised |-> place_raised,
                          alerts |-> alerts_of_tick(cancel_raised, place_raised),
                          escaped |-> exception_escapes(cancel_raised, place_raised),
                          slept |-> now' - now,
                          tracked |-> Len(open_orders')]

InitErrVars ==
    tick_errors = [cancel_raised |-> FALSE, place_raised |-> FALSE, alerts |-> <<>>,
                   escaped |-> FALSE, slept |-> 0, tracked |-> 0]

IdleListener == wcfg = CHOOSE c \in ListenerConfigs : ~c.usable

-----------------------------------------------------------------------------
(* Start-up and shutdown of the component tasks (src/core/main.py).        *)

MaxClientCalls == 2

\* The tasks main() appends to its list `tasks`.
MainTasks == {"metrics", "listener", "maker", "hedger", "account_listener", "watchdogs"}

\* run_component awaits comp.run() when the component has a coroutine run,
\* else comp.start(); the start() of Hedger and of AccountListener creates
\* the task of the component's loop and returns.  The loop a start() creates:
spawned_loop(t) ==
    IF t = "hedger" THEN "HedgerLoop"
    ELSE IF t = "account_listener" THEN "AccountListenerLoop"
    ELSE "none"

\* The tasks that run a component's loop for the life of the process.
LoopTasks == {"metrics", "listener", "maker", "watchdogs", "HedgerLoop", "AccountListenerLoop"}

AllTasks == MainTasks \cup LoopTasks

\* The loops that call the shared TradingClient.
ClientUsers == {"maker", "HedgerLoop"}

\* tasks not finished: created and neither returned nor cancelled
unfinished(states) == {t \in AllTasks : states[t] \in {"running", "cancelling"}}

\* maker / hedger loop: a call of create_post_only_limit or cancel_order;
\* _require_signer runs ensure_ready, which builds a signer when there is none
LoopClientCall(t) ==
    /\ task_state[t] = "running"
    /\ client_calls < MaxClientCalls
    /\ client_calls' = client_calls + 1
    /\ signer_open' = TRUE
    /\ late_calls' = IF main_pc = "returned" THEN late_calls + 1 ELSE late_calls
    /\ UNCHANGED <<task_state, main_pc, stop_event, unfinished_at_close>>

\* run_component(name, comp) for a component with start(): the loop task is
\* created and the task of run_component ends
ComponentStart(t) ==
    /\ spawned_loop(t) # "none"
    /\ task_state[t] = "running"
    /\ task_state[spawned_loop(t)] = "absent"
    /\ task_state' = [task_state EXCEPT ![t] = "done", ![spawned_loop(t)] = "running"]
    /\ UNCHANGED <<main_pc, stop_event, signer_open, client_calls, late_calls,
                   unfinished_at_close>>

\* the signal handler: stop_event.set()
SignalStop ==
    /\ ~stop_event
    /\ stop_event' = TRUE
    /\ UNCHANGED <<task_state, main_pc, signer_open, client_calls, late_calls,
                   unfinished_at_close>>

\* main: `for t in tasks: t.cancel()` once stop_event.wait() returns
MainCancelTasks ==
    /\ main_pc = "waiting" /\ stop_event
    /\ task_state' = [t \in AllTasks |->
                        IF t \in MainTasks /\ task_state[t] = "running" THEN "cancelling"
                        ELSE task_state[t]]
    /\ main_pc' = "gathering"
    /\ UNCHANGED <<stop_event, signer_open, client_calls, late_calls, unfinished_at_close>>

\* a cancelled task receives CancelledError at its await and ends
TaskCancelled(t) ==
    /\ task_state[t] = "cancelling"
    /\ task_state' = [task_state EXCEPT ![t] = "done"]
    /\ UNCHANGED <<main_pc, stop_event, signer_open, client_calls, late_calls,
                   unfinished_at_close>>

\* main: asyncio.gather(*tasks) has returned and shared_trading_client.close()
\* is called
MainCloseClient ==
    /\ main_pc = "gathering"
    /\ \A t \in MainTasks : task_state[t] = "done"
    /\ main_pc' = "closing"
    /\ unfinished_at_close' = unfinished(task_state)
    /\ UNCHANGED <<task_state, stop_event, signer_open, client_calls, late_calls>>

\* TradingClient.close: the signer is closed and dropped; main returns
ClientClosed ==
    /\ main_pc = "closing"
    /\ signer_open' = FALSE
    /\ main_pc' = "returned"
    /\ UNCHANGED <<task_state, stop_event, client_calls, late_calls, unfinished_at_close>>

\* asyncio.run: after main() has returned the tasks still alive are cancelled
LoopTeardown ==
    /\ main_pc = "returned"
    /\ main_pc' = "exited"
    /\ task_state' = [t \in AllTasks |->
                        IF task_state[t] \in {"running", "cancelling"} THEN "done"
                        ELSE task_state[t]]
    /\ UNCHANGED <<stop_event, signer_open, client_calls, late_calls, unfinished_at_close>>

InitMainVars ==
    /\ task_state = [t \in AllTasks |-> IF t \in MainTasks THEN "running" ELSE "absent"]
    /\ main_pc = "waiting"
    /\ stop_event = FALSE
    /\ signer_open = FALSE
    /\ client_calls = 0
    /\ late_calls = 0
    /\ unfinished_at_close = {}

\* Position maps of account frames: those of PositionMaps, a position on a
\* second market, and positions on both markets.
PositionSnapshots ==
    PositionMaps \cup
    { [is_dict |-> TRUE, entries |-> (2 :> PosEntry("value", 2, 1))],
      [is_dict |-> TRUE, entries |-> (1 :> PosEntry("value", 2, -1)) @@ (2 :> PosEntry("value", 1, 1))] }

\* _handle_account_all, observed: the frame's trades, then its positions
HandleSnapshotFrame(trades, pos) ==
    /\ HandleAccountAll(trades, pos)
    /\ last_snapshot' = [seen |-> TRUE, pos |-> pos,
                         inv_fills |-> HandleTrades(acfg, AcctState, trades, 1).inv]

InitSnapVars ==
    last_snapshot = [seen |-> FALSE, pos |-> [is_dict |-> FALSE, entries |-> <<>>],
                     inv_fills |-> <<>>]

\* guard.* configurations: the defaults, crossed-book protection switched
\* off, and a notional cap of 2 quote units under a unit cap of 0.05.
GuardConfigs ==
    { BaseMakerCfg,
      [BaseMakerCfg EXCEPT !.guard_crossed_book_protection = FALSE],
      [BaseMakerCfg EXCEPT !.guard_max_position_units = 5, !.guard_max_inventory = 2] }

\* Quotes handed to the guard, in price units: 99.45, 99.50, 99.96, 100.04,
\* 100.50, 100.55.
GuardPrices == {1989000, 1990000, 1999200, 2000800, 2010000, 2011000}

\* _get_mid_for_market(market, fallback_mid): StateStore.get_mid(market) when
\* it is not None, else the fallback (StateStore has no mids / last_mid)
get_mid_for_market_fallback_only(stored, fallback_mid) == fallback_mid

get_mid_for_market(stored, fallback_mid) ==
    IF StateHas("get_mid") /\ stored.known THEN stored.px ELSE fallback_mid

\* SelfTradeGuard.is_allowed(mid, bid, ask, market) on the StateStore
GuardEval(mid_px, bid, ask) ==
    /\ UNCHANGED <<makerVars, inventory>>
    /\ \E inv \in {get_inventory(inventory, MakerMarket)} :
       \E ref_mid \in {get_mid_for_market(mid, mid_px)} :
          guard_eval' = [called |-> TRUE, mid_px |-> mid_px, bid |-> bid, ask |-> ask,
                         inv |-> inv, stored |-> mid, ref_mid |-> ref_mid,
                         result |-> is_allowed(mcfg, mid_px, bid, ask, inv, ref_mid),
                         store_before |-> <<mid, inventory>>,
                         store_after |-> <<mid', inventory'>>]

InitGuardVars ==
    guard_eval = [called |-> FALSE, mid_px |-> 0, bid |-> 0, ask |-> 0, inv |-> 0,
                  stored |-> [known |-> FALSE, px |-> 0], ref_mid |-> 0, result |-> TRUE,
                  store_before |-> <<>>, store_after |-> <<>>]

-----------------------------------------------------------------------------
(* MetricsLedger.iter_events read lazily (src/metrics/ledger.py)           *)
(* The generator takes the lock of the path at its first next() and keeps  *)
(* it, with the file open, until it is exhausted.  The lock is a           *)
(* threading.RLock: the thread that holds it acquires it again at once.    *)

\* Who calls append or reset while the generator is suspended: another task
\* of the reader's event loop, or another thread.
LedgerCallers == {"task", "thread"}

ReaderThread == 1

thread_of(caller) == IF caller = "task" THEN ReaderThread ELSE 2

\* RLock.acquire() returns at once for this thread
rlock_acquirable(lock, th) == lock.owner = 0 \/ lock.owner = th

rlock_acquire(lock, th) == [owner |-> th, count |-> lock.count + 1]

rlock_release(lock) ==
    IF lock.count = 1 THEN [owner |-> 0, count |-> 0]
    ELSE [lock EXCEPT !.count = lock.count - 1]

InitIterVars ==
    /\ rlock = [owner |-> 0, count |-> 0]
    /\ iter_pc = "idle"
    /\ iter_fh = <<>>
    /\ iter_pos = 0
    /\ iter_log = <<>>

\* first next() of iter_events(): no file, or lock taken and file opened
IterStart ==
    /\ iter_pc # "reading"
    /\ IF ~ledger_file.exists
       THEN /\ iter_pc' = "done"
            /\ UNCHANGED <<rlock, iter_fh, iter_pos>>
       ELSE /\ rlock_acquirable(rlock, ReaderThread)
            /\ rlock' = rlock_acquire(rlock, ReaderThread)
            /\ iter_pc' = "reading"
            /\ iter_fh' = ledger_file.lines
            /\ iter_pos' = 0
    /\ iter_log' = <<>>
    /\ UNCHANGED ledgerVars

\* a later next(): one more line, or the end of the file, which leaves the
\* with block
IterNext ==
    /\ iter_pc = "reading"
    /\ IF iter_pos < Len(iter_fh)
       THEN /\ iter_pos' = iter_pos + 1
            /\ UNCHANGED <<rlock, iter_pc>>
       ELSE /\ rlock' = rlock_release(rlock)
            /\ iter_pc' = "done"
            /\ UNCHANGED iter_pos
    /\ UNCHANGED <<ledgerVars, iter_fh, iter_log>>

\* What the call did to the file under the path, if anything.
FileChange(kind, caller) == [kind |-> kind, by |-> caller, at |-> iter_pos]

\* MetricsLedger.append(event) called by a task or a thread
IterAppend(caller, event) ==
    /\ rlock_acquirable(rlock, thread_of(caller))
    /\ LedgerAppend(event)
    /\ \E rotated \in {ledger_file.exists /\ Len(ledger_file'.lines) = 1} :
          /\ iter_log' = IF iter_pc = "reading" /\ rotated
                         THEN Append(iter_log, FileChange("rotate", caller))
                         ELSE iter_log
          /\ iter_fh' = IF iter_pc = "reading" /\ iter_log = <<>> /\ ~rotated
                        THEN ledger_file'.lines
                        ELSE iter_fh
    /\ UNCHANGED <<rlock, iter_pc, iter_pos>>

\* MetricsLedger.reset() called by a task or a thread
IterReset(caller) ==
    /\ rlock_acquirable(rlock, thread_of(caller))
    /\ LedgerReset
    /\ iter_log' = IF iter_pc = "reading"
                   THEN Append(iter_log, FileChange("reset", caller))
                   ELSE iter_log
    /\ UNCHANGED <<rlock, iter_pc, iter_fh, iter_pos>>

-----------------------------------------------------------------------------
(* MakerEngine: the orders the exchange holds next to the orders tracked   *)
(* (src/modules/maker_engine.py, _cancel_all_orders and _place_order).     *)

\* The exchange's book after _cancel_all_orders: cancel_order raises on the
\* first order when the client fails, and the loop over the orders ends there.
live_after_cancel(cfg, live, issued, cancel_ok) ==
    IF issued /\ live_client(cfg) /\ cancel_ok THEN <<>> ELSE live

\* run(): one iteration with a mid, with the exchange's book observed
TickOnExchange(in, cancel_ok) ==
    /\ TickQuoteOnClient(in, cancel_ok)
    /\ exchange_live' = live_after_cancel(mcfg, exchange_live, tick'.cancelled, cancel_ok)
                            \o SelectSeq(placed', LAMBDA o : o.accepted)

InitExchVars == exchange_live = <<>>

-----------------------------------------------------------------------------
(* Hedger: the loop's wait and the wake-ups of AccountListener             *)
(* (src/modules/hedger.py, _run_loop, _wait_for_next_tick and on_fill;     *)
(* src/modules/account_listener.py, _handle_trade_entry).                  *)

\* poll_interval_seconds, in ticks of the clock of this part
PollTicks == 2

\* Fills applied over a run of this part.
MaxLoopFills == 3

\* The wait that never times out.
wait_returns_on_wake_only(event, elapsed) == event

\* asyncio.wait_for(self._wake.wait(), timeout=self.poll_interval_s) returns
\* when the event is set or when the timeout has passed.
wait_returns(event, elapsed) == event \/ elapsed >= PollTicks

\* _handle_trade_entry: _update_state applies the fill to the inventory, then
\* fire_and_forget makes the task that will call hedger.on_fill.
FillApplied ==
    /\ state_inventory < MaxLoopFills
    /\ state_inventory' = state_inventory + 1
    /\ on_fill_tasks' = on_fill_tasks + 1
    /\ UNCHANGED <<loop_pc, wake_event, read_inventory, waited>>

\* on_fill: self._wake.set()
OnFillRuns ==
    /\ on_fill_tasks > 0
    /\ on_fill_tasks' = on_fill_tasks - 1
    /\ wake_event' = TRUE
    /\ UNCHANGED <<loop_pc, state_inventory, read_inventory, waited>>

\* _wait_for_next_tick returns, its finally clause clears the event, and the
\* loop's next _maybe_hedge reads the inventory with no await in between; the
\* evaluation then either returns at once or goes on over awaits.
WaitReturns(awaits) ==
    /\ loop_pc = "waiting"
    /\ wait_returns(wake_event, waited)
    /\ wake_event' = FALSE
    /\ read_inventory' = state_inventory
    /\ loop_pc' = IF awaits THEN "evaluating" ELSE "waiting"
    /\ waited' = 0
    /\ UNCHANGED <<on_fill_tasks, state_inventory>>

\* _maybe_hedge returns (or raises into the loop's except) and the wait begins
EvaluationEnds ==
    /\ loop_pc = "evaluating"
    /\ loop_pc' = "waiting"
    /\ waited' = 0
    /\ UNCHANGED <<wake_event, on_fill_tasks, state_inventory, read_inventory>>

\* Time passes while the loop is in a wait that has not returned.
WaitTick ==
    /\ loop_pc = "waiting"
    /\ ~wait_returns(wake_event, waited)
    /\ waited <= PollTicks
    /\ waited' = waited + 1
    /\ UNCHANGED <<loop_pc, wake_event, on_fill_tasks, state_inventory, read_inventory>>

\* _run_loop begins with an evaluation: the loop is in its first _maybe_hedge.
InitWakeVars ==
    /\ loop_pc = "evaluating"
    /\ wake_event = FALSE
    /\ on_fill_tasks = 0
    /\ state_inventory = 0
    /\ read_inventory = 0
    /\ waited = 0

-----------------------------------------------------------------------------
(* Hedger: what a passive attempt leaves on the exchange                   *)
(* (src/modules/hedger.py, _execute_passive_hedge and stop).               *)

NoAttempt == [ended |-> "none", index |-> 0, resting |-> 0]

\* The end of _execute_passive_hedge: what rests of the order. On success the
\* index is discarded and nothing is sent; otherwise cancel_order is awaited
\* and its exception is logged.
passive_order_after(order_size, filled_size, success, cancel_ok) ==
    IF success THEN order_size - filled_size
    ELSE IF cancel_ok THEN 0 ELSE order_size - filled_size

\* The passive attempt of one evaluation, from the client calls it made.
attempt_of(cs, index, filled_size) ==
    LET created == { i \in 1..Len(cs) : cs[i].op = "create_post_only_limit" /\ cs[i].ok }
        cancels == { i \in 1..Len(cs) : cs[i].op = "cancel_order" }
    IN IF created = {} THEN NoAttempt
       ELSE [ended |-> IF cancels = {} THEN "success" ELSE "timeout",
             index |-> index,
             resting |-> passive_order_after(cs[CHOOSE i \in created : TRUE].size,
                                             filled_size, cancels = {},
                                             \E i \in cancels : cs[i].ok)]

\* Size filled between two readings of the inventory, in units of size.
FilledBetween(before, after) ==
    (Abs(before) - Abs(after)) * (SizePerBase \div InventoryPerBase)

\* _run_loop: one evaluation, with the exchange's side of its passive attempt
HedgerWakeOnExchange(place_ok, filled, cancel_ok, woken) ==
    /\ HedgerWake(place_ok, filled, cancel_ok, woken)
    /\ passive_attempt' =
           attempt_of(calls', next_order_index,
                      FilledBetween(get_inventory(inventory, MakerMarket),
                                    get_inventory(inventory', MakerMarket)))

\* stop() while _execute_passive_hedge is in its wait: _stop is set and the
\* loop task is cancelled at once, so CancelledError is raised at the await of
\* asyncio.sleep and leaves _execute_passive_hedge, _maybe_hedge and the loop.
HedgerStoppedInPassiveWait(filled) ==
    /\ wakeups < MaxWakeups
    /\ \E r \in {maybe_hedge(hcfg, get_inventory(inventory, MakerMarket), mid, guard_block,
                             pnl_guard, next_allowed_ts, over_trigger_since, now, TRUE,
                             filled, TRUE)} :
          /\ r.calls # <<>>
          /\ r.calls[1].op = "create_post_only_limit"
          /\ r.calls[1].ok
          /\ calls' = <<r.calls[1]>>
          /\ inventory' = set_inventory(inventory, MakerMarket, r.inventory)
          /\ passive_attempt' =
                 [ended |-> "stopped", index |-> next_order_index,
                  resting |-> r.calls[1].size
                                - FilledBetween(get_inventory(inventory, MakerMarket),
                                                r.inventory)]
    /\ over_trigger_since' = IF over_trigger_since.set THEN over_trigger_since
                              ELSE [set |-> TRUE, ts |-> now]
    /\ open_passive_orders' = {next_order_index}
    /\ next_order_index' = next_order_index + 1
    /\ wakeups' = MaxWakeups
    /\ UNCHANGED <<hcfg, deny_since, next_allowed_ts, wake, now, mcfg, mid, ticks,
                   open_orders, cancel_count, cancel_window_start, is_throttled, vol,
                   trend, regime, pnl_guard, guard_block, rejects, tick, placed,
                   recent_cancels>>

InitPassiveVars == passive_attempt = NoAttempt

InitExtVars == InitIterVars /\ InitExchVars /\ InitWakeVars /\ InitPassiveVars

InitSysVars == IdleListener /\ InitListenerVars /\ InitMainVars /\ InitErrVars /\ InitSnapVars /\ InitGuardVars /\ InitExtVars

-----------------------------------------------------------------------------
(* Specifications                                                          *)

IdleAcct == acfg = CHOOSE c \in AcctConfigs : c.has_ledger /\ c.has_hedger

IdleLedger == lcfg = CHOOSE c \in LedgerConfigs : ~c.has_max_bytes

IdleMaker == mcfg = BaseMakerCfg

IdleHedger == hcfg = CHOOSE c \in HedgerConfigs : c.has_trigger_notional

acctOther == <<acfg, fifo_lots, fifo_realized, lot_seq, fills_seen, log, matches, snap,
               since, maker_net, maker_cash, all_net, all_cash, fill_events>>

\* The account listener fed with account_all frames.
InitAcct ==
    /\ acfg \in AcctConfigs
    /\ InitAcctVars
    /\ IdleLedger /\ InitLedgerVars
    /\ IdleMaker /\ InitMakerVars
    /\ IdleHedger /\ InitHedgerVars
    /\ InitConcVars
    /\ InitSysVars

NextAcct ==
    \E trades \in TradeLists, pos \in PositionMaps :
        HandleAccountAll(trades, pos) /\ UNCHANGED <<ledgerVars, makerVars, hedgerVars, concVars, sysVars>>

SpecAcct == InitAcct /\ [][NextAcct]_vars

\* Trade entries whose base_amount parses as a decimal that is no valid fill
\* size: "-1" and "0".
InvalidEntries ==
    { Entry(1, -1, 100, Them, Us, FALSE),
      Entry(1, -1, 100, Us, Them, TRUE),
      Entry(1, 0, 100, Them, Us, FALSE) }

\* The account listener fed with frames of one trade entry, valid or not.
NextAcctRaw ==
    \E e \in TradeEntries \cup InvalidEntries, pos \in PositionMaps :
        HandleAccountAll(<<e>>, pos) /\ UNCHANGED <<ledgerVars, makerVars, hedgerVars, concVars, sysVars>>

SpecAcctRaw == InitAcct /\ [][NextAcctRaw]_vars

\* One MetricsLedger used by its writers and readers.
InitLedger ==
    /\ lcfg \in LedgerConfigs
    /\ InitLedgerVars
    /\ IdleAcct /\ InitAcctVars
    /\ IdleMaker /\ InitMakerVars
    /\ IdleHedger /\ InitHedgerVars
    /\ InitConcVars
    /\ InitSysVars

NextLedger ==
    \/ \E event \in FillEvents : LedgerAppend(event) /\ UNCHANGED <<acctVars, makerVars, hedgerVars, concVars, sysVars>>
    \/ \E event \in FillEvents, stage \in AppendStages :
          LedgerAppendFails(event, stage) /\ UNCHANGED <<acctVars, makerVars, hedgerVars, concVars, sysVars>>
    \/ \E since_ts \in {0, 1, 2} :
          LedgerRead(since_ts # 0, since_ts) /\ UNCHANGED <<acctVars, makerVars, hedgerVars, concVars, sysVars>>
    \/ LedgerReset /\ UNCHANGED <<acctVars, makerVars, hedgerVars, concVars, sysVars>>
    \/ ClockTick /\ UNCHANGED <<acctVars, makerVars, hedgerVars, concVars, sysVars>>

SpecLedger == InitLedger /\ [][NextLedger]_vars

\* One ledger read lazily by a task while a task of the same event loop and
\* another thread append to it and reset it.
iterOther == <<exchVars, wakeVars, passiveVars, acctVars, makerVars, hedgerVars, concVars, listenerVars, mainVars, errVars, snapVars, guardVars>>

InitIter ==
    /\ lcfg \in LedgerConfigs
    /\ InitLedgerVars
    /\ IdleAcct /\ InitAcctVars
    /\ IdleMaker /\ InitMakerVars
    /\ IdleHedger /\ InitHedgerVars
    /\ InitConcVars
    /\ InitSysVars

NextIter ==
    \/ IterStart /\ UNCHANGED iterOther
    \/ IterNext /\ UNCHANGED iterOther
    \/ \E caller \in LedgerCallers, event \in FillEvents :
          IterAppend(caller, event) /\ UNCHANGED iterOther
    \/ \E caller \in LedgerCallers : IterReset(caller) /\ UNCHANGED iterOther
    \/ ClockTick /\ UNCHANGED <<iterOther, iterVars>>

SpecIter == InitIter /\ [][NextIter]_vars

-----------------------------------------------------------------------------
(* Specification: the Hedger's loop and the listener's fills               *)

wakeOther == <<acctVars, ledgerVars, makerVars, hedgerVars, concVars, listenerVars, mainVars, errVars, snapVars, guardVars, iterVars, exchVars, passiveVars>>

InitWake == InitIter

NextWake ==
    \/ FillApplied /\ UNCHANGED wakeOther
    \/ OnFillRuns /\ UNCHANGED wakeOther
    \/ \E awaits \in BOOLEAN : WaitReturns(awaits) /\ UNCHANGED wakeOther
    \/ EvaluationEnds /\ UNCHANGED wakeOther
    \/ WaitTick /\ UNCHANGED wakeOther

\* The event loop runs every task that is ready, an evaluation's awaits come
\* back, and time goes on.
FairWake ==
    /\ WF_vars(OnFillRuns /\ UNCHANGED wakeOther)
    /\ WF_vars(\E awaits \in BOOLEAN : WaitReturns(awaits) /\ UNCHANGED wakeOther)
    /\ WF_vars(EvaluationEnds /\ UNCHANGED wakeOther)
    /\ WF_vars(WaitTick /\ UNCHANGED wakeOther)

SpecWake == InitWake /\ [][NextWake]_vars /\ FairWake

\* The maker loop with its guard, fed with mids and positions.
InitMaker ==
    /\ mcfg \in MakerConfigs
    /\ InitMakerVars
    /\ IdleAcct /\ InitAcctVars
    /\ IdleLedger /\ InitLedgerVars
    /\ IdleHedger /\ InitHedgerVars
    /\ InitConcVars
    /\ InitSysVars

NextMaker ==
    \/ TickNoMid /\ UNCHANGED <<acctOther, ledgerVars, hedgerVars, concVars, sysVars>>
    \/ \E in \in TickInputs(mcfg) :
          TickQuote(in.ema, in.jitter, in.spike, in.force_cancel, in.exchange[1],
                    in.exchange[2])
              /\ UNCHANGED <<acctOther, ledgerVars, hedgerVars, concVars, sysVars>>
    \/ \E px \in MidValues : SetMid(px) /\ UNCHANGED <<acctVars, ledgerVars, hedgerVars, concVars, sysVars>>
    \/ \E value \in MakerInventories :
          SetMakerInventory(value) /\ UNCHANGED <<acctOther, ledgerVars, hedgerVars, concVars, sysVars>>
    \/ ApplyPnlGuard(4, 85, 30) /\ UNCHANGED <<acctVars, ledgerVars, hedgerVars, concVars, sysVars>>

SpecMaker == InitMaker /\ [][NextMaker]_vars

\* Inventories the account listener writes while the hedger runs, in
\* inventory units (-0.05, 0, 0.03).
HedgerInventories == {-5, 0, 3}

\* The hedger loop next to the maker loop, fed with mids, positions and fills.
InitHedger ==
    /\ hcfg \in HedgerConfigs
    /\ InitHedgerVars
    /\ IdleAcct /\ InitAcctVars
    /\ IdleLedger /\ InitLedgerVars
    /\ IdleMaker /\ InitMakerVars
    /\ InitConcVars
    /\ InitSysVars

NextHedger ==
    \/ \E place_ok \in BOOLEAN, filled \in {0, 1, 3}, cancel_ok \in BOOLEAN, woken \in BOOLEAN :
          HedgerWake(place_ok, filled, cancel_ok, woken)
              /\ UNCHANGED <<acctOther, ledgerVars, concVars, sysVars>>
    \/ \E in \in TickInputs(mcfg) :
          /\ ticks < MaxGuardTicks
          /\ in.jitter = mcfg.randomize_bps
          /\ in.exchange = <<TRUE, TRUE>>
          /\ TickQuote(in.ema, in.jitter, in.spike, in.force_cancel, in.exchange[1],
                       in.exchange[2])
          /\ deny_since' = IF tick'.allowed THEN [set |-> FALSE, ts |-> 0]
                           ELSE IF deny_since.set THEN deny_since
                           ELSE [set |-> TRUE, ts |-> now]
          /\ UNCHANGED <<acctOther, ledgerVars, concVars, sysVars, hcfg, next_allowed_ts,
                         over_trigger_since, open_passive_orders, wakeups, wake, calls>>
    \/ \E px \in {2004000} : SetMid(px) /\ UNCHANGED <<acctOther, ledgerVars, hedgerVars, concVars, sysVars>>
    \/ \E value \in HedgerInventories :
          SetMakerInventory(value) /\ UNCHANGED <<acctOther, ledgerVars, hedgerVars, concVars, sysVars>>

SpecHedger == InitHedger /\ [][NextHedger]_vars

-----------------------------------------------------------------------------
(* Specification: the Hedger's passive attempts and the exchange           *)

hedgerExchOther == <<acctOther, ledgerVars, concVars, listenerVars, mainVars, errVars, snapVars, guardVars, iterVars, exchVars, wakeVars>>

NextHedgerExchange ==
    \/ \E place_ok \in BOOLEAN, filled \in {0, 1, 3}, cancel_ok \in BOOLEAN, woken \in BOOLEAN :
          HedgerWakeOnExchange(place_ok, filled, cancel_ok, woken)
              /\ UNCHANGED hedgerExchOther
    \/ \E filled \in {0, 1, 3} :
          HedgerStoppedInPassiveWait(filled) /\ UNCHANGED hedgerExchOther
    \/ \E px \in {2004000} :
          SetMid(px) /\ UNCHANGED <<hedgerExchOther, hedgerVars, passiveVars>>
    \/ \E value \in HedgerInventories :
          SetMakerInventory(value) /\ UNCHANGED <<hedgerExchOther, hedgerVars, passiveVars>>

SpecHedgerExchange == InitHedger /\ [][NextHedgerExchange]_vars

\* Every component as constructed and left alone.
InitIdle ==
    /\ IdleAcct /\ InitAcctVars
    /\ IdleLedger /\ InitLedgerVars
    /\ IdleMaker /\ InitMakerVars
    /\ IdleHedger /\ InitHedgerVars
    /\ InitConcVars
    /\ InitSysVars

\* Two threads appending to the same ledger path.
lockOther == <<acctVars, ledgerVars, makerVars, hedgerVars, sysVars>>

NextLock ==
    \/ \E t \in {1, 2} : GetLockLookup(t) /\ UNCHANGED lockOther
    \/ \E t \in {1, 2} : GetLockStore(t) /\ UNCHANGED lockOther
    \/ \E t \in {1, 2} : AppendEnter(t) /\ UNCHANGED lockOther
    \/ \E t \in {1, 2} : AppendWrite(t) /\ UNCHANGED lockOther

SpecLock == InitIdle /\ [][NextLock]_vars

\* The maker and the hedger placing orders through the shared client.
clientOther == <<acctVars, ledgerVars, hedgerVars, sysVars, mcfg, mid, now, ticks, open_orders,
                 cancel_count, cancel_window_start, is_throttled, vol, trend, regime,
                 pnl_guard, guard_block, rejects, tick, placed, recent_cancels>>

NextClient ==
    \/ \E who \in {"maker", "hedger"} : ClientRequest(who) /\ UNCHANGED clientOther
    \/ \E who \in {"maker", "hedger"} : ClientAllocate(who) /\ UNCHANGED clientOther

SpecClient == InitIdle /\ [][NextClient]_vars

\* The market-data listener on a socket that fails, delivers frames, idles
\* and closes.
listenerOther == <<extVars, acctVars, ledgerVars, hedgerVars, concVars, mainVars, errVars, snapVars, guardVars, mcfg, now, ticks, open_orders,
                   next_order_index, cancel_count, cancel_window_start, is_throttled, vol,
                   trend, regime, pnl_guard, guard_block, rejects, tick, placed,
                   recent_cancels>>

InitListener ==
    /\ wcfg \in ListenerConfigs
    /\ InitListenerVars
    /\ InitExtVars
    /\ InitMainVars
    /\ InitErrVars
    /\ InitSnapVars
    /\ InitGuardVars
    /\ IdleAcct /\ InitAcctVars
    /\ IdleLedger /\ InitLedgerVars
    /\ IdleMaker /\ InitMakerVars
    /\ IdleHedger /\ InitHedgerVars
    /\ InitConcVars

NextListener ==
    \/ RunStart /\ UNCHANGED listenerOther
    \/ ConnectFail /\ UNCHANGED listenerOther
    \/ \E send_ok \in BOOLEAN : ConnectOk(send_ok) /\ UNCHANGED listenerOther
    \/ \E f \in Frames, send_ok \in BOOLEAN : RecvFrame(f, send_ok) /\ UNCHANGED listenerOther
    \/ RecvTimeout /\ UNCHANGED listenerOther
    \/ RecvClosed /\ UNCHANGED listenerOther
    \/ SleepDone /\ UNCHANGED listenerOther
    \/ \E px \in MidValues : SyntheticTick(px) /\ UNCHANGED listenerOther
    \/ ListenerStop /\ UNCHANGED listenerOther
    \/ ListenerExit /\ UNCHANGED listenerOther

SpecListener == InitListener /\ [][NextListener]_vars

\* The process from the start of its tasks to the end of asyncio.run.
shutdownOther == <<extVars, acctVars, ledgerVars, makerVars, hedgerVars, concVars, listenerVars, errVars, snapVars, guardVars>>

NextShutdown ==
    \/ \E t \in ClientUsers : LoopClientCall(t) /\ UNCHANGED shutdownOther
    \/ \E t \in MainTasks : ComponentStart(t) /\ UNCHANGED shutdownOther
    \/ SignalStop /\ UNCHANGED shutdownOther
    \/ MainCancelTasks /\ UNCHANGED shutdownOther
    \/ \E t \in AllTasks : TaskCancelled(t) /\ UNCHANGED shutdownOther
    \/ MainCloseClient /\ UNCHANGED shutdownOther
    \/ ClientClosed /\ UNCHANGED shutdownOther
    \/ LoopTeardown /\ UNCHANGED shutdownOther

SpecShutdown == InitIdle /\ [][NextShutdown]_vars

\* The maker loop on an exchange client whose calls can raise.
makerErrOther == <<extVars, acctOther, ledgerVars, hedgerVars, concVars, listenerVars, mainVars, snapVars, guardVars>>

NextMakerErrors ==
    \/ TickNoMid /\ UNCHANGED <<makerErrOther, errVars>>
    \/ \E in \in TickInputs(mcfg), cancel_ok \in BOOLEAN :
          TickQuoteOnClient(in, cancel_ok) /\ UNCHANGED makerErrOther
    \/ \E px \in MidValues : SetMid(px) /\ UNCHANGED <<makerErrOther, errVars>>

SpecMakerErrors == InitMaker /\ [][NextMakerErrors]_vars

\* The maker loop on an exchange client whose cancels can fail, with the
\* exchange's book observed.
makerExchOther == <<acctOther, ledgerVars, hedgerVars, concVars, listenerVars, mainVars, snapVars, guardVars, iterVars, wakeVars, passiveVars>>

NextMakerExchange ==
    \/ TickNoMid /\ UNCHANGED <<makerExchOther, errVars, exchVars>>
    \/ \E in \in TickInputs(mcfg), cancel_ok \in BOOLEAN :
          TickOnExchange(in, cancel_ok) /\ UNCHANGED makerExchOther
    \/ \E px \in MidValues : SetMid(px) /\ UNCHANGED <<makerExchOther, errVars, exchVars>>

SpecMakerExchange == InitMaker /\ [][NextMakerExchange]_vars

\* The account listener fed with frames whose positions cover one or both markets.
acctPosOther == <<extVars, ledgerVars, makerVars, hedgerVars, concVars, listenerVars, mainVars, errVars, guardVars>>

\* Frames of at most one trade, at the price of 100.
SnapshotTrades == {tl \in TradeLists : Len(tl) = 0 \/ (Len(tl) = 1 /\ tl[1].price = 100)}

NextAcctPos ==
    \E trades \in SnapshotTrades, pos \in PositionSnapshots :
        HandleSnapshotFrame(trades, pos) /\ UNCHANGED acctPosOther

SpecAcctPos == InitAcct /\ [][NextAcctPos]_vars

\* The guard called with quotes around the mid while the StateStore changes.
guardOther == <<extVars, acctOther, ledgerVars, hedgerVars, concVars, listenerVars, mainVars, errVars,
                snapVars>>

InitGuard ==
    /\ mcfg \in GuardConfigs
    /\ InitMakerVars
    /\ IdleAcct /\ InitAcctVars
    /\ IdleLedger /\ InitLedgerVars
    /\ IdleHedger /\ InitHedgerVars
    /\ InitConcVars
    /\ InitSysVars

NextGuard ==
    \/ \E mid_px \in MidValues, bid \in GuardPrices, ask \in GuardPrices :
          GuardEval(mid_px, bid, ask) /\ UNCHANGED guardOther
    \/ \E px \in MidValues : SetMid(px) /\ UNCHANGED <<guardOther, guardVars>>
    \/ \E value \in MakerInventories :
          SetMakerInventory(value) /\ UNCHANGED <<guardOther, guardVars>>

SpecGuard == InitGuard /\ [][NextGuard]_vars

-----------------------------------------------------------------------------
(* Claims about the account listener                                       *)

C7_FifoMatchingOrder ==
    \A i \in 1..Len(matches) :
        LET r == matches[i]
        IN IF r.kind = "match"
           THEN /\ r.taken = r.oldest
                /\ r.pnl = IF r.lot_size > 0 THEN (r.exit - r.entry) * r.matched
                                             ELSE (r.entry - r.exit) * r.matched
           ELSE r.lot_size = r.matched /\ r.entry = r.exit

\* C8 (as stated): whenever the inventory of a market is back at zero after a
\* sequence of fills that closes every position (the base deltas of the fills
\* sum to zero), the cumulative FIFO realized PnL of the market equals the sum
\* over the matched lots of (exit - entry) * matched minus the fees of the
\* fills, which for a closed position is the sum of quote_delta - fee.
C8_ClosedRealizedAllFills ==
    \A m \in Markets :
        (get_inventory(inventory, m) = 0 /\ all_net[m] = 0)
            => fifo_realized[m] = all_cash[m]

\* C8 (amended): whenever the base deltas of the maker fills of a market sum
\* to zero, every FIFO lot of the market is closed and the cumulative FIFO
\* realized PnL equals the sum over the maker fills of quote_delta - fee.
C8_ClosedRealizedMakerFills ==
    \A m \in Markets :
        maker_net[m] = 0 => (fifo_lots[m] = <<>> /\ fifo_realized[m] = maker_cash[m])

\* A market whose maker position was opened, partly matched and closed again
\* at a different price while a taker fill was applied in between or after.
C8_Witness ==
    /\ maker_net[1] = 0
    /\ lot_seq > 0
    /\ fifo_realized[1] # 0
    /\ all_net[1] # 0
    /\ \E i \in 1..Len(matches) : matches[i].kind = "match" /\ matches[i].pnl # 0

LogRank(op) == IF op = "inventory" THEN 1 ELSE IF op = "ledger" THEN 2 ELSE 3

\* C10: the fills of a frame are processed in the order received, and for each
\* fill the inventory mutation comes before the ledger append, which comes
\* before the hedger wake-up of that fill.
C10_PerFillOrder ==
    \A a \in 1..Len(log) : \A b \in 1..Len(log) :
        a < b => \/ log[a][2] < log[b][2]
                 \/ (log[a][2] = log[b][2] /\ LogRank(log[a][1]) < LogRank(log[b][1]))

\* Two fills of one frame, each with its inventory mutation, ledger append and
\* hedger wake-up.
C10_Witness ==
    /\ Len(log) = 6
    /\ log[1] = <<"inventory", 1>> /\ log[3] = <<"hedger", 1>>
    /\ log[4] = <<"inventory", 2>> /\ log[5] = <<"ledger", 2>>

-----------------------------------------------------------------------------
(* Claims about the ledger                                                 *)

\* C9: for every fill event e appended to the ledger after the last reset(),
\* a later iter_events call with since_ts absent or <= e.timestamp yields an
\* event equal to e, also after further appends to the same ledger.
C9_LedgerRoundTrip ==
    read_done =>
        \A i \in (reset_at + 1)..Len(appended) :
            (~read_since.has \/ read_since.ts <= appended[i].timestamp)
                => \E j \in 1..Len(read_events) : read_events[j] = appended[i]

-----------------------------------------------------------------------------
(* Claims about the maker loop                                             *)

\* C2: on a tick where the guard denies the tick's (mid, bid, ask), no order
\* is placed, all tracked orders are cancelled, and the guard block of the
\* market is recorded before the tick waits.
C2_GuardDenyBlocksAndRecords ==
    ~tick.allowed => (placed = <<>> /\ open_orders = <<>> /\ guard_block.set)

QuotingPaths == {"guard_blocked", "too_small", "both_disabled", "throttled", "posted"}

BothSidesDisabled ==
    /\ tick.path \in QuotingPaths
    /\ tick.bias = "ask" \/ tick.inv > 0
    /\ tick.bias = "bid" \/ tick.inv < 0

\* C3: on a tick whose inventory is beyond the asymmetric threshold, no bid is
\* placed when the inventory is long and no ask when it is short, whatever the
\* trend bias; when bias and inventory disable both sides the tick cancels all
\* orders and places nothing.
C3_AsymmetricQuoting ==
    Abs(tick.inv) > asymmetric_threshold =>
        /\ tick.inv > 0 => \A i \in 1..Len(placed) : placed[i].side # "bid"
        /\ tick.inv < 0 => \A i \in 1..Len(placed) : placed[i].side # "ask"
        /\ BothSidesDisabled => (placed = <<>> /\ open_orders = <<>>)

\* A short inventory with an ask-only trend bias: both sides are disabled and
\* the resting orders were cancelled.
C3_WitnessBothDisabled ==
    /\ tick.path = "both_disabled"
    /\ tick.inv < -asymmetric_threshold
    /\ tick.bias = "ask"
    /\ tick.cancelled

\* C4: the cancel operations issued by the maker in any 60 second window,
\* on every path, number at most max_cancels.
C4_CancelBudget == Len(recent_cancels) <= mcfg.max_cancels

SubmittedPrice(o) == (o.price_units * PricePerQuote) \div mcfg.price_scale

\* C5: every bid and ask submitted to the exchange lies inside the price band
\* around the tick's mid, and a bid and an ask submitted together satisfy
\* bid < ask.
C5_SubmittedQuotesValid ==
    \A i \in 1..Len(placed) :
        /\ placed[i].side = "bid" =>
              (tick.mid - SubmittedPrice(placed[i])) * 10000
                  <= tick.mid * mcfg.guard_price_band_bps
        /\ placed[i].side = "ask" =>
              (SubmittedPrice(placed[i]) - tick.mid) * 10000
                  <= tick.mid * mcfg.guard_price_band_bps
        /\ \A j \in 1..Len(placed) :
              (placed[i].side = "bid" /\ placed[j].side = "ask")
                  => placed[i].price_units < placed[j].price_units

\* C6: every submitted order has size >= exchange_min_size and
\* size * (its own limit price) >= exchange_min_notional.
C6_SubmittedSizeAndNotional ==
    \A i \in 1..Len(placed) :
        /\ placed[i].size >= mcfg.exchange_min_size
        /\ placed[i].size * placed[i].price
              >= mcfg.exchange_min_notional * SizePerBase * PricePerQuote

-----------------------------------------------------------------------------
(* Claims on the hedger                                                    *)

\* The last wakeup went as far as executing a hedge (live or simulated).
Hedged == wake.units > 0 \/ calls # <<>>

\* C11: the hedger submits an order on a wakeup only if |inventory| >
\* trigger_units and, when trigger_notional is configured, |inventory| * mid >
\* trigger_notional; a wakeup with |inventory| <= trigger_units clears the
\* over-trigger-since timestamp and submits nothing.
C11_TriggerGate ==
    /\ Hedged =>
          /\ wake.abs_inv > hcfg.trigger_units
          /\ hcfg.has_trigger_notional =>
                wake.abs_inv * wake.mid_px
                    > hcfg.trigger_notional * SizePerBase * PricePerQuote
    /\ (wake.outcome # "init" /\ wake.abs_inv <= hcfg.trigger_units) =>
          /\ ~Hedged
          /\ ~over_trigger_since.set

\* A live wakeup that passed both triggers and had its passive order accepted.
C11_Witness ==
    /\ hcfg.has_trigger_notional
    /\ wake.abs_inv > hcfg.trigger_units
    /\ Len(calls) > 0
    /\ calls[1].op = "create_post_only_limit"
    /\ calls[1].ok

\* ---- C12

\* The side that reduces the inventory the last wakeup read.
ReducingSide == IF wake.inv > 0 THEN "ask" ELSE "bid"

\* The maker's guard had been denying for guard_emergency_seconds or more
\* when the last wakeup started.
EmergencyCondition ==
    /\ hcfg.guard_emergency_seconds > 0
    /\ wake.deny_age >= hcfg.guard_emergency_seconds

\* The last wakeup executed a hedge with passive mode selected: prefer_passive,
\* no emergency, over the trigger for less than passive_timeout_seconds.
PassiveSelected ==
    /\ wake.units > 0
    /\ hcfg.prefer_passive
    /\ ~EmergencyCondition
    /\ wake.over_for < hcfg.passive_timeout_seconds

AggressiveCalls == {i \in 1..Len(calls) : calls[i].op = "create_limit_order"}

FirstCallIsPassiveOrder ==
    /\ Len(calls) > 0
    /\ calls[1].op = "create_post_only_limit"
    /\ calls[1].reduce_only
    /\ calls[1].post_only
    /\ calls[1].side = ReducingSide

\* C12 as stated: with passive mode selected the hedger first places a
\* reduce-only post-only order on the reducing side; the aggressive order of
\* the wakeup is sent only after the passive attempt timed out and the cancel
\* of the resting order was issued, and never when the passive attempt
\* succeeded.
C12_PassiveThenAggressive ==
    PassiveSelected =>
        /\ FirstCallIsPassiveOrder
        /\ \A j \in AggressiveCalls :
              \E i \in 1..(j - 1) : calls[i].op = "cancel_order"
        /\ wake.outcome = "passive" => AggressiveCalls = {}

\* C12 (amended): on a live wakeup with passive mode selected the first client
\* call is a reduce-only post-only order on the reducing side; an aggressive
\* order call is made only after the placement was rejected, or after the
\* wait ended without success and the cancel was issued; none is made when
\* the passive attempt succeeded.
C12_PassiveThenAggressiveLive ==
    (PassiveSelected /\ ~hedger_dry_run(hcfg)) =>
        /\ FirstCallIsPassiveOrder
        /\ \A j \in AggressiveCalls :
              \/ ~calls[1].ok
              \/ calls[1].ok /\ calls[2].op = "cancel_order" /\ j > 2
        /\ wake.outcome = "passive" => AggressiveCalls = {}

\* A live passive attempt that timed out, was cancelled and fell through to
\* the aggressive call.
C12_Witness ==
    /\ PassiveSelected
    /\ ~hedger_dry_run(hcfg)
    /\ Len(calls) >= 3
    /\ calls[1].ok
    /\ calls[2].op = "cancel_order"
    /\ calls[3].op = "create_limit_order"

\* ---- C13

\* C13: outside emergency no hedge order is submitted while the cooldown
\* timestamp has not elapsed; the cooldown timestamp is rescheduled on a
\* successful hedge (to at least the wakeup's time plus the cooldown) and a
\* wakeup whose hedge failed or was skipped leaves it unchanged.
C13_CooldownOnSuccessOnly ==
    /\ (~EmergencyCondition /\ wake.t < wake.cooldown_before) => ~Hedged
    /\ (Hedged /\ wake.success) =>
          next_allowed_ts >= wake.t + Min2(hcfg.cooldown_seconds,
                                           hcfg.guard_emergency_cooldown)
    /\ (wake.outcome # "init" /\ ~wake.success) =>
          next_allowed_ts = wake.cooldown_before

\* ---- C14

\* C14: on a live wakeup that gets as far as hedging, with the guard block of
\* the market active for guard_emergency_seconds or more, the hedger makes no
\* passive attempt, does not wait for the cooldown, and submits an aggressive
\* order priced with the additional guard_emergency_extra_bps and clipped with
\* guard_emergency_clip_multiplier.
C14_EmergencyEscalation ==
    (/\ EmergencyCondition
     /\ ~hedger_dry_run(hcfg)
     /\ wake.outcome \notin {"init", "under_trigger", "no_mid", "notional", "no_excess"})
    =>
        /\ wake.outcome # "cooling"
        /\ \A i \in 1..Len(calls) : calls[i].op # "create_post_only_limit"
        /\ \E i \in AggressiveCalls :
              /\ calls[i].price
                     = aggressive_price(wake.mid_px, ReducingSide,
                                        hcfg.price_offset_bps
                                            + hcfg.guard_emergency_extra_bps)
              /\ calls[i].size
                     = Min2(wake.abs_inv - hcfg.target_units,
                            Min2((hcfg.max_clip_units
                                      * hcfg.guard_emergency_clip_multiplier) \div 100,
                                 wake.abs_inv))

\* ---- C15

\* The aggressive price of the last wakeup deviates from the mid it used by
\* more than cap bps.
DeviatesMoreThan(price, cap) ==
    Abs(wake.mid_px - price) * 10000 > cap * wake.mid_px

C16_ForcedDryRun ==
    /\ (hcfg.taker_actual_rate = 0 /\ hcfg.hedger_dry_run = "unset") => hedger_dry_run(hcfg)
    /\ hedger_dry_run(hcfg) => calls = <<>>

\* A simulated hedge under the forced dry-run, with maker.dry_run = false and
\* passive mode preferred.
C16_Witness ==
    /\ hcfg.taker_actual_rate = 0
    /\ hcfg.hedger_dry_run = "unset"
    /\ hcfg.maker_dry_run = "false"
    /\ hcfg.prefer_passive
    /\ wake.outcome = "dry_run"
    /\ wake.units > 0
    /\ wake.success
    /\ calls = <<>>

-----------------------------------------------------------------------------
(* Claims on the fill events of the account listener                       *)

\* C17: every fill event the account listener appends to the ledger has
\* |base_delta| = size, base_delta > 0 exactly when side = bid, quote_delta =
\* -base_delta * price and notional = size * price >= 0; an entry with a
\* negative or zero size is dropped, so no event of such an entry is appended.
C17_FillEventInvariants ==
    \A i \in 1..Len(fill_events) :
        LET ev == fill_events[i]
        IN /\ Abs(ev.base_delta) = ev.size
           /\ (ev.base_delta > 0) <=> (ev.side = "bid")
           /\ ev.quote_delta = 0 - (ev.base_delta * ev.price)
           /\ ev.notional = ev.size * ev.price
           /\ ev.notional >= 0
           /\ ev.size > 0

-----------------------------------------------------------------------------
(* Claims on the failure semantics and the locking of the ledger           *)

\* C18: MetricsLedger.append never propagates a failure to its caller: when
\* the rotation or the file write fails, append still returns normally.
C18_AppendNeverRaises == append_errors = 0

\* C19: two appends on the same path that run concurrently obtain the same
\* per-path lock, so their rotate-check-and-write sections never overlap.
C19_AppendsSerialized ==
    \A t1 \in {1, 2}, t2 \in {1, 2} :
        t1 # t2 =>
            /\ ~(thread_state[t1].pc = "section" /\ thread_state[t2].pc = "section")
            /\ (thread_state[t1].pc \in {"ready", "section"}
                    /\ thread_state[t2].pc \in {"ready", "section"})
                  => thread_state[t1].lock = thread_state[t2].lock

-----------------------------------------------------------------------------
(* Claims on the client order indexes                                      *)

\* C20: the client order ids a TradingClient hands out are strictly
\* increasing and never repeated, also when the maker and the hedger request
\* placements concurrently through the shared client, and the maker and the
\* hedger never receive the same id.
C20_OrderIdsIncrease ==
    \A i \in 1..Len(issued_ids), j \in 1..Len(issued_ids) :
        /\ i < j => issued_ids[i].id < issued_ids[j].id
        /\ issued_ids[i].who # issued_ids[j].who => issued_ids[i].id # issued_ids[j].id

\* The maker and the hedger were both inside create_post_only_limit when
\* each of them got its index.
C20_Witness ==
    \E i \in 1..Len(issued_ids), j \in 1..Len(issued_ids) :
        /\ issued_ids[i].who = "maker"
        /\ issued_ids[j].who = "hedger"
        /\ issued_ids[i].concurrent
        /\ j = i + 1

-----------------------------------------------------------------------------
(* Claims about the market-data listener                                   *)

\* C21: the listener is in synthetic mode after a WS start only when at least
\* max_failures socket errors have occurred since the last connection that
\* was established, and a listener in synthetic mode stays there (or stops)
\* without calling websockets.connect again.
C21_SyntheticAfterConsecutiveFailures ==
    /\ []((wcfg.usable /\ listener_pc = "synthetic") => fail_streak >= wcfg.max_failures)
    /\ [][listener_pc = "synthetic"
            => (listener_pc' \in {"synthetic", "stopped"} /\ connects' = connects)]_vars

\* C22: a received frame never raises out of the receive loop: after it the
\* listener still receives on the same connection and the failure counter is
\* what it was.
C22_FramesNeverEndLoop ==
    last_recv.kind = "frame"
        => /\ last_recv.result # "raised"
           /\ last_recv.pc_after = "receiving"
           /\ last_recv.conn_after = last_recv.conn_before
           /\ last_recv.failures_after = last_recv.failures_before

\* C23: after a wait for a frame has timed out (60 s without a frame) the
\* listener is no longer on the connection it waited on.
C23_IdleTimeoutReconnects ==
    last_recv.kind = "timeout" => conn_id # last_recv.conn_before

-----------------------------------------------------------------------------
(* Claims about start-up and shutdown                                      *)

\* C24: when main() calls close() on the shared exchange client every task
\* that runs a component loop has finished, and no order placement or cancel
\* is made on the client after close() has returned.
C24_TasksDrainedBeforeClose ==
    /\ main_pc \in {"closing", "returned", "exited"} => unfinished_at_close = {}
    /\ late_calls = 0

-----------------------------------------------------------------------------
(* Claims about exchange errors in the maker loop                          *)

\* C25: when the exchange client raises while the maker cancels or places an
\* order, the exception does not leave the iteration, an alert is sent, and
\* the iteration ends with the sleep of refresh_seconds.
C25_ClientErrorsAlertAndContinue ==
    (tick_errors.cancel_raised \/ tick_errors.place_raised)
        => /\ ~tick_errors.escaped
           /\ tick_errors.alerts # <<>>
           /\ tick_errors.slept = mcfg.refresh_seconds

-----------------------------------------------------------------------------
(* Claims about position snapshots                                         *)

\* the position an entry reports, negated when its sign indicator is -1
ReportedPosition(e) == IF e.sign = -1 THEN 0 - e.position ELSE e.position

\* the markets the listener tracks when the positions of a frame are handled
TrackedAtSnapshot ==
    (IF acfg.market_filter # {} THEN acfg.market_filter ELSE DOMAIN last_snapshot.inv_fills)
        \cup acfg.default_market

InventoryIs(m, v) == m \in DOMAIN inventory /\ inventory[m] = v

-----------------------------------------------------------------------------
(* Claims about the guard                                                  *)

\* mid * band / 10000 for the band of the configuration; the mids of the
\* model make it a whole number of price units
BandWidth(mid_px) == (mid_px * mcfg.guard_price_band_bps) \div 10000

\* rules 2 and 3 of the guard on the arguments and reads of the last call
BandAndInventoryRules ==
    /\ guard_eval.bid >= guard_eval.mid_px - BandWidth(guard_eval.mid_px)
    /\ guard_eval.ask <= guard_eval.mid_px + BandWidth(guard_eval.mid_px)
    /\ Abs(guard_eval.inv) <= mcfg.guard_max_position_units
    /\ Abs(guard_eval.inv) * (IF guard_eval.stored.known THEN guard_eval.stored.px
                              ELSE guard_eval.mid_px)
           <= mcfg.guard_max_inventory * InventoryPerBase * PricePerQuote

\* C27 (as stated): is_allowed returns true exactly when bid < ask, the
\* quotes lie in the band around the passed mid, and the inventory is within
\* the unit cap and, valued at the stored mid if there is one and at the
\* passed mid otherwise, within the notional cap; the call leaves the
\* StateStore as it was.
C27_IsAllowedExact ==
    guard_eval.called
        => /\ guard_eval.result = (guard_eval.bid < guard_eval.ask /\ BandAndInventoryRules)
           /\ guard_eval.store_after = guard_eval.store_before

\* C27 (amended): the same with rule 1 applied only when
\* guard.crossed_book_protection is on (its default).
C27_IsAllowedExactWithSwitch ==
    guard_eval.called
        => /\ guard_eval.result
                = ((mcfg.guard_crossed_book_protection => guard_eval.bid < guard_eval.ask)
                   /\ BandAndInventoryRules)
           /\ guard_eval.store_after = guard_eval.store_before

\* The guard has denied a quote pair for the notional cap alone, valued at
\* the stored mid: at the passed mid the inventory would have been allowed.
C27_Witness ==
    /\ guard_eval.called /\ ~guard_eval.result
    /\ guard_eval.bid < guard_eval.ask
    /\ guard_eval.stored.known /\ guard_eval.stored.px > guard_eval.mid_px
    /\ Abs(guard_eval.inv) <= mcfg.guard_max_position_units
    /\ Abs(guard_eval.inv) * guard_eval.mid_px
           <= mcfg.guard_max_inventory * InventoryPerBase * PricePerQuote
    /\ guard_eval.bid >= guard_eval.mid_px - BandWidth(guard_eval.mid_px)
    /\ guard_eval.ask <= guard_eval.mid_px + BandWidth(guard_eval.mid_px)

\* C28: once the cancel count of the current window has reached max_cancels,
\* every iteration of the quoting loop made before the window rolls places no
\* order and issues no cancel; the first discipline check made 60 seconds or
\* more after the window start resets the counter (only cancels of that same
\* iteration are counted afterwards), restarts the window and clears the
\* throttle.
C28_ThrottledUntilWindowRolls ==
    [][(ticks' = ticks + 1 /\ tick'.path # "no_mid") =>
          /\ (cancel_count >= mcfg.max_cancels /\ now - cancel_window_start < CancelWindow)
                => (placed' = <<>> /\ ~tick'.cancelled)
          /\ (tick'.path # "paused" /\ now - cancel_window_start >= CancelWindow)
                => /\ cancel_window_start' = now
                   /\ is_throttled' = (mcfg.max_cancels <= 0)
                   /\ cancel_count' <= (IF tick'.cancelled THEN 1 ELSE 0)
                                       + (IF mcfg.chaos_cancel THEN 1 ELSE 0)]_vars

\* The regime _maybe_update_regime aims at on an iteration, from the values
\* the iteration has just computed.
RegimeTarget ==
    IF \/ pnl_guard'.active
       \/ trend'.signal = "down"
       \/ (regime_down_cooldown(mcfg, regime.name) > 0 /\ now < trend'.cooldown_until)
       \/ vol'.latest < mcfg.regime_vol_threshold_bps
    THEN "defensive" ELSE "aggressive"

\* C29: on an iteration of the quoting loop the regime changes only when at
\* least min_dwell_seconds have passed since the last switch (or since
\* construction), and on every iteration made after that dwell the regime is
\* the target: defensive if the PnL guard is active, the trend signal is down,
\* the downtrend cooldown is active or the volatility EMA is below
\* regime_vol_threshold, otherwise aggressive.
C29_RegimeFollowsTarget ==
    [][(ticks' = ticks + 1 /\ tick'.path # "no_mid") =>
          /\ regime'.name # regime.name
                => now - regime.last_switch >= mcfg.regime_min_dwell
          /\ now - regime.last_switch >= mcfg.regime_min_dwell
                => regime'.name = RegimeTarget]_vars

\* The price move over the lookback window on the iteration just made, in bps.
TrendDelta ==
    LET oldest_mid == Head(trend'.samples)[2]
    IN IF oldest_mid # 0 THEN ((mid.px - oldest_mid) * 10000) \div Max2(oldest_mid, 1) ELSE 0

\* An iteration on which _update_trend_state runs its state machine.
TrendTick ==
    /\ ticks' = ticks + 1
    /\ tick'.path \notin {"no_mid", "paused"}
    /\ mcfg.trend_enabled
    /\ Len(trend'.samples) >= 2

\* The hysteresis step: ask_only and bid_only fall back to neutral.
TrendExit(s, d) ==
    IF s = "ask_only" /\ d < mcfg.trend_hysteresis_bps THEN "neutral"
    ELSE IF s = "bid_only" /\ d > -mcfg.trend_hysteresis_bps THEN "neutral"
    ELSE s

\* The threshold step: neutral moves to ask_only or to the down-bias state.
TrendEntry(s, d) ==
    IF s = "neutral" /\ d >= mcfg.trend_threshold_bps THEN "ask_only"
    ELSE IF s = "neutral" /\ d <= -mcfg.trend_down_threshold_bps THEN mcfg.trend_down_state
    ELSE s

\* A downtrend has been entered on this iteration and its cooldown is set.
DownEntered(s, d) ==
    /\ s = "neutral"
    /\ d < mcfg.trend_threshold_bps
    /\ d <= -mcfg.trend_down_threshold_bps

CooldownSet ==
    trend'.cooldown_until
        = Max2(trend.cooldown_until, now + regime_down_cooldown(mcfg, regime.name))

\* C30 as stated: in one iteration the trend state changes only from neutral
\* to ask_only (delta >= up threshold), from neutral to the down-bias state
\* (delta <= -down threshold, which also sets the cooldown-until time), from
\* ask_only to neutral (delta < resume threshold) or from bid_only to neutral
\* (delta > -resume threshold); in every other case it is unchanged.
C30_TrendTransitions ==
    [][TrendTick =>
          \/ trend'.state = TrendEntry(trend.state, TrendDelta)
                /\ trend.state = "neutral"
                /\ (DownEntered(trend.state, TrendDelta) => CooldownSet)
          \/ trend'.state = TrendExit(trend.state, TrendDelta)
                /\ trend.state # "neutral"]_vars

\* C30 amended: one iteration applies the hysteresis step and then, to its
\* result, the threshold step, so that a state left for neutral can be left
\* for ask_only or the down-bias state in the same iteration; the cooldown-until
\* time is set exactly when the threshold step enters the downtrend; with fewer
\* than two samples in the lookback window the state is reset to neutral.
C30_TrendTransitionsComposed ==
    [][(ticks' = ticks + 1 /\ tick'.path \notin {"no_mid", "paused"} /\ mcfg.trend_enabled) =>
          IF Len(trend'.samples) < 2
          THEN trend'.state = "neutral" /\ trend'.cooldown_until = trend.cooldown_until
          ELSE /\ trend'.state = TrendEntry(TrendExit(trend.state, TrendDelta), TrendDelta)
               /\ IF DownEntered(TrendExit(trend.state, TrendDelta), TrendDelta)
                     /\ regime_down_cooldown(mcfg, regime.name) > 0
                  THEN CooldownSet
                  ELSE trend'.cooldown_until = trend.cooldown_until]_vars

\* A downtrend was entered on the last iteration: bid_only with the down
\* signal and the cooldown running from the time of that iteration's sample.
C30_Witness ==
    /\ mcfg.trend_enabled
    /\ tick.path = "posted"
    /\ trend.state = "bid_only"
    /\ trend.signal = "down"
    /\ Len(trend.samples) = 2
    /\ trend.samples[1][2] > trend.samples[2][2]
    /\ trend.cooldown_until = trend.samples[2][1] + regime_down_cooldown(mcfg, "defensive")

\* An iteration of the quoting loop made with a mid.
MakerTick == ticks' = ticks + 1 /\ tick'.path # "no_mid"

\* |inventory| <= inventory_soft_cap * resume_inventory_ratio on this iteration.
InventoryLetsResume ==
    Abs(get_inventory(inventory, MakerMarket)) * 100
        <= mcfg.inventory_soft_cap * mcfg.vol_resume_inventory_ratio

C32_NoRotationWhileReading == iter_pc = "reading" => iter_log = <<>>

\* C33: while SafetyGuard keeps denying the maker's quotes, the guard-block
\* start time the Hedger reads is the time of the first denial of that run; a
\* passing guard evaluation clears the marker; and a wakeup that finds the
\* denials lasting guard_emergency_seconds or more, with inventory over the
\* trigger, hedges in emergency mode.
C33_GuardBlockSeenByHedger ==
    /\ deny_since.set => (guard_block.set /\ guard_block.since = deny_since.ts)
    /\ ~deny_since.set => ~guard_block.set
    /\ (/\ EmergencyCondition
        /\ wake.outcome \notin {"init", "under_trigger", "no_mid", "notional", "no_excess"})
          => wake.emergency

\* C34: after an account frame that carries no positions map, the inventory
\* of every market is what the base deltas of the frame's own trades made of
\* it: no tracked market has been overwritten or reset.
C34_NoPositionsNoOverwrite ==
    (last_snapshot.seen /\ ~last_snapshot.pos.is_dict)
        => inventory = last_snapshot.inv_fills

LiveOn(side) == {i \in 1..Len(exchange_live) : exchange_live[i].side = side}

TrackedIds == {open_orders[i].id : i \in 1..Len(open_orders)}

\* C35: at any time the maker has at most one bid and one ask resting on the
\* exchange, and every order of its that rests there is in its tracked
\* open-order set (an order is dropped from the set only once its cancel has
\* succeeded).
C35_LiveOrdersTracked ==
    /\ Cardinality(LiveOn("bid")) <= 1
    /\ Cardinality(LiveOn("ask")) <= 1
    /\ \A i \in 1..Len(exchange_live) : exchange_live[i].id \in TrackedIds

OrderCalls ==
    {i \in 1..Len(calls) : calls[i].op \in {"create_post_only_limit", "create_limit_order"}}

\* C36: every order the hedger sends in a wakeup, passive or aggressive, is
\* reduce-only, is on the side that reduces the position read at that wakeup
\* (ask when long, bid when short), and has a positive size of at most
\* |inventory| - target_units; outside emergency the size is also at most
\* max_clip_units.
C36_HedgeOrdersReduce ==
    \A i \in OrderCalls :
        /\ calls[i].reduce_only
        /\ calls[i].side = ReducingSide
        /\ calls[i].size > 0
        /\ calls[i].size <= wake.abs_inv - hcfg.target_units
        /\ ~wake.emergency => calls[i].size <= hcfg.max_clip_units

\* A passive bid has reached the exchange for a short position whose excess is
\* larger than the clip.
C36_Witness ==
    /\ Len(calls) > 0
    /\ calls[1].op = "create_post_only_limit"
    /\ calls[1].reached
    /\ wake.inv < 0
    /\ calls[1].side = "bid"
    /\ calls[1].size = hcfg.max_clip_units
    /\ wake.abs_inv - hcfg.target_units > hcfg.max_clip_units

RECURSIVE LotSum(_)
LotSum(lots) == IF lots = <<>> THEN 0 ELSE Head(lots).size + LotSum(Tail(lots))

\* C37: after any sequence of fills, the lots of every market's FIFO deque
\* have non-zero sizes of one sign, and their signed sizes add up to the sum of
\* base_delta over the maker fills of that market.
C37_LotsOneSignedSum ==
    \A m \in Markets :
        /\ \A i \in 1..Len(fifo_lots[m]) : fifo_lots[m][i].size # 0
        /\ \A i, j \in 1..Len(fifo_lots[m]) :
              (fifo_lots[m][i].size > 0) = (fifo_lots[m][j].size > 0)
        /\ LotSum(fifo_lots[m]) = maker_net[m]

\* A short lot is open on market 1 after fills that crossed from long to short.
C37_Witness ==
    /\ Len(fifo_lots[1]) = 1
    /\ fifo_lots[1][1].size < 0
    /\ fifo_realized[1] # 0
    /\ maker_net[1] = fifo_lots[1][1].size
    /\ fills_seen = MaxFills

LinesEqual(lines, line) == Cardinality({ i \in 1..Len(lines) : lines[i] = line })

RECURSIVE ArchivedLines(_, _)
\* Lines equal to the given line over a set of archive files.
ArchivedLines(arch, line) ==
    IF arch = {} THEN 0
    ELSE LET a == CHOOSE x \in arch : TRUE
         IN LinesEqual(a.lines, line) + ArchivedLines(arch \ {a}, line)

\* C39: with an archive directory configured, every event ever appended is
\* present in exactly one file, the current ledger or one archive file: each
\* line is found over those files as many times as it was appended.
C39_RotationKeepsEveryEvent ==
    lcfg.archive_dir =>
        \A i \in 1..Len(appended) :
            \E line \in {json_dumps(appended[i])} :
                LinesEqual(ledger_file.lines, line) + ArchivedLines(archives, line)
                    = Cardinality({ j \in 1..Len(appended) : json_dumps(appended[j]) = line })

\* C40: when a passive hedge attempt has ended, by success, by timeout or
\* because the hedger was stopped, nothing of the order it placed rests on the
\* exchange and the hedger's set of open passive orders is empty.
C40_PassiveAttemptLeavesNothing ==
    passive_attempt.ended # "none" =>
        /\ passive_attempt.resting = 0
        /\ open_passive_orders = {}

====
